---------------------------- MODULE Spec2Model ----------------------------
(***************************************************************************)
(* Verification model of herzog-drei: the grid pathfinder (pkg/unit),      *)
(* the unit entity and unit manager (pkg/unit), the capturable base and   *)
(* base manager (pkg/base), and the combat system's attacks on the mech    *)
(* (pkg/combat, pkg/mech).                                                 *)
(*                                                                         *)
(* Numbers.  The program computes in float32.  The model computes in exact *)
(* fixed point wherever the quantities are exact in float32 as well, and   *)
(* rounds as float32 does where they are not:                              *)
(*   - world coordinates of the pathfinder in half world units, so that    *)
(*     the cell size 1.0 of main.go is 2 and cell centres are integers;    *)
(*   - path costs in hundredths (1 -> 100, 1.41 -> 141, 0.41 -> 41);       *)
(*   - frame times of a base in eighths of a second, income in eighths of  *)
(*     a credit; capture progress as a float32, a count of 2^-29, with     *)
(*     every operation on it rounded to 24 significant bits, ties to even; *)
(*   - frame times and cooldowns of a unit in twelfths of a second, its    *)
(*     health in tenths of a point, armor, speeds, rates and ranges in     *)
(*     tenths, so that amount * (1 - armor) and 1 / AttackRate are exact.  *)
(*   - the mech's health in points, the combat system's timers in          *)
(*     twelfths of a second.                                               *)
(***************************************************************************)
EXTENDS Integers, Sequences, FiniteSets, TLC

VARIABLES
    width,      \* Pathfinder.width
    height,     \* Pathfinder.height
    blocked,    \* Pathfinder.blocked : [0 .. width*height-1 -> BOOLEAN]
    fp,         \* the last FindPath call: its arguments and what it returned
    base,       \* a Base
    tick,       \* the capture observed by the last Base.Update
    unit,       \* a Unit outside any manager
    did,        \* the last operation on that unit
    units,      \* Manager.units, as the IDs of the units in slice order
    store,      \* the Unit objects reachable from the manager, by ID
    nextID,     \* Manager.nextID
    ret,        \* the last operation on the manager and the unit it returned
    bm,         \* the base Manager: its bases in slice order, nextID, credits
    bmRet,      \* the last operation on the base manager and what it returned
    playerMech, \* the player's Mech
    combat,     \* the combat System
    shots       \* per unit, the damage it applied in the last frame and before

pfVars == <<width, height, blocked, fp>>

baseVars == <<base, tick>>

unitVars == <<unit, did>>

managerVars == <<units, store, nextID, ret>>

baseManagerVars == <<bm, bmRet>>

combatVars == <<playerMech, combat, shots>>

vars == <<width, height, blocked, fp, base, tick, unit, did, units, store, nextID, ret,
          bm, bmRet, playerMech, combat, shots>>

\* What the operations of one component leave alone.
outsidePathfinder ==
    <<base, tick, unit, did, units, store, nextID, ret, bm, bmRet, playerMech, combat, shots>>

outsideBase ==
    <<width, height, blocked, fp, unit, did, units, store, nextID, ret, bm, bmRet,
      playerMech, combat, shots>>

outsideUnit ==
    <<width, height, blocked, fp, base, tick, units, store, nextID, ret, bm, bmRet,
      playerMech, combat, shots>>

outsideManager ==
    <<width, height, blocked, fp, base, tick, unit, did, bm, bmRet, playerMech, combat, shots>>

outsideBaseManager ==
    <<width, height, blocked, fp, base, tick, unit, did, units, store, nextID, ret,
      playerMech, combat, shots>>

outsideBattle == <<width, height, blocked, fp, base, tick, unit, did, bm, bmRet>>

\* A specification of one component leaves the others unbuilt.
Absent == <<>>

NoPathfinder == width = 0 /\ height = 0 /\ blocked = Absent /\ fp = Absent

NoBase == base = Absent /\ tick = Absent

NoUnit == unit = Absent /\ did = Absent

NoManager == units = Absent /\ store = Absent /\ nextID = 0 /\ ret = Absent

NoBaseManager == bm = Absent /\ bmRet = Absent

NoCombat == playerMech = Absent /\ combat = Absent /\ shots = Absent

(***************************************************************************)
(* Bounds of the model.                                                    *)
(***************************************************************************)
GridW == 3          \* columns of the grids explored
GridH == 2          \* rows of the grids explored
MaxBlocked == 2     \* at most this many cells are blocked at once
MaxInfantry == 2    \* at most this many infantry are reported inside a base
MaxDt == 2          \* longest frame of a base, in eighths of a second
MaxUnits == 2        \* capacity of the unit manager
MaxID == 3           \* units ever spawned by the unit manager
MaxAmount == 25      \* largest damage or healing amount, in health points
MaxTime == 41        \* game time explored, in eighths of a second
MaxIncome == 0      \* credits left uncollected when Base.Update is called
MaxSiege == 6        \* length of a siege, in eighths of a second
MaxPost == 16        \* length of the guarded stretch, in half world units
MaxStretch == 4     \* length of the stretch a lone unit walks, in world units
MaxBases == 3       \* bases on the map of the base manager
MaxPurchases == 2   \* successful purchases in a game of the base manager
MaxGameTime == 20   \* game time of the base manager, in eighths of a second

(***************************************************************************)
(* Generic helpers.                                                        *)
(***************************************************************************)
Abs(x) == IF x < 0 THEN -x ELSE x
Max2(a, b) == IF a > b THEN a ELSE b
Min2(a, b) == IF a < b THEN a ELSE b

\* Go's int(f) of a quotient: truncation toward zero.
TruncDiv(a, b) == IF a >= 0 THEN a \div b ELSE -((-a) \div b)

NoPath == <<>>      \* FindPath's nil slice

\* F(a), with a evaluated once before F is applied (TLC otherwise evaluates an
\* argument anew at each of its uses).
Strict(F(_), a) == CHOOSE r \in {F(v) : v \in {a}} : TRUE

(***************************************************************************)
(* Pathfinder: the grid.                                                   *)
(***************************************************************************)
\* cellSize handed to NewPathfinder, in half world units (1.0 -> 2).
cellSize == 2

NewPathfinder(w, h) == [i \in 0 .. (w * h - 1) |-> FALSE]

IsBlocked_ignoresGrid(p, x, y) ==
    x < 0 \/ x >= p.width \/ y < 0 \/ y >= p.height

IsBlocked(p, x, y) ==
    IF x < 0 \/ x >= p.width \/ y < 0 \/ y >= p.height
    THEN TRUE
    ELSE p.blocked[y * p.width + x]

\* offsetX = width * cellSize / 2 ; x = int((pos.X + offsetX) / cellSize)
WorldToGrid(p, pos) ==
    LET offsetX == (p.width * cellSize) \div 2
        offsetY == (p.height * cellSize) \div 2
    IN  [x |-> TruncDiv(pos.X + offsetX, cellSize),
         y |-> TruncDiv(pos.Y + offsetY, cellSize)]

GridToWorld_cellCorner(p, x, y) ==
    [X |-> x * cellSize - (p.width * cellSize) \div 2,
     Y |-> y * cellSize - (p.height * cellSize) \div 2]

GridToWorld(p, x, y) ==
    LET offsetX == (p.width * cellSize) \div 2
        offsetY == (p.height * cellSize) \div 2
    IN  [X |-> x * cellSize + cellSize \div 2 - offsetX,
         Y |-> y * cellSize + cellSize \div 2 - offsetY]

(***************************************************************************)
(* Pathfinder: the priority queue (container/heap over nodeHeap).          *)
(* A heap is a sequence of nodes [x, y, f, g, h]; index i of the Go slice  *)
(* is element i+1 of the sequence.                                         *)
(***************************************************************************)
Less(h, i, j) == h[i + 1].f < h[j + 1].f

Swap(h, i, j) == [h EXCEPT ![i + 1] = h[j + 1], ![j + 1] = h[i + 1]]

RECURSIVE up(_, _)
up(h, j) ==
    LET i == TruncDiv(j - 1, 2)
    IN  IF i = j \/ ~Less(h, j, i) THEN h
        ELSE Strict(LAMBDA h2 : up(h2, i), Swap(h, i, j))

RECURSIVE down(_, _, _)
down(h, i, n) ==
    LET j1 == 2 * i + 1
        j  == IF j1 + 1 < n /\ Less(h, j1 + 1, j1) THEN j1 + 1 ELSE j1
    IN  IF j1 >= n THEN h
        ELSE IF ~Less(h, j, i) THEN h
        ELSE Strict(LAMBDA h2 : down(h2, j, n), Swap(h, i, j))

heapPush(h, node) == Strict(LAMBDA h2 : up(h2, Len(h2) - 1), Append(h, node))

\* heap.Pop: the popped node and the remaining heap.
heapPop(h) ==
    LET n == Len(h) - 1
    IN  Strict(LAMBDA h2 : [node |-> h2[n + 1], rest |-> SubSeq(h2, 1, n)],
               down(Swap(h, 0, n), 0, n))

(***************************************************************************)
(* Pathfinder: A*.                                                         *)
(***************************************************************************)
heuristic(x, y, gx, gy) ==
    LET dx == Abs(gx - x)
        dy == Abs(gy - y)
    IN  100 * Max2(dx, dy) + 41 * Min2(dx, dy)

dirs == << <<0, -1>>, <<0, 1>>, <<-1, 0>>, <<1, 0>>,
           <<-1, -1>>, <<1, -1>>, <<-1, 1>>, <<1, 1>> >>

costs_swapped == <<141, 141, 141, 141, 100, 100, 100, 100>>

costs == <<100, 100, 100, 100, 141, 141, 141, 141>>

\* The test of lines 116-125 of FindPath: may the search step from (cx,cy) in
\* direction i (1..8)?
canStep_cutsCorners(p, cx, cy, i) ==
    ~IsBlocked(p, cx + dirs[i][1], cy + dirs[i][2])

canStep(p, cx, cy, i) ==
    /\ ~IsBlocked(p, cx + dirs[i][1], cy + dirs[i][2])
    /\ i >= 5 => /\ ~IsBlocked(p, cx + dirs[i][1], cy)
                 /\ ~IsBlocked(p, cx, cy + dirs[i][2])

\* The relaxation test of line 131.
improves(gScore, key, tentativeG) ==
    key \notin DOMAIN gScore \/ tentativeG < gScore[key]

\* One iteration of the neighbour loop (lines 112-143) for direction i.
\* s = [open, cameFrom, gScore].
relax(p, goal, cur, s, i) ==
    LET nx == cur.x + dirs[i][1]
        ny == cur.y + dirs[i][2]
        tentativeG == s.gScore[cur.y * p.width + cur.x] + costs[i]
        neighborKey == ny * p.width + nx
        hh == heuristic(nx, ny, goal.x, goal.y)
        neighbor == [x |-> nx, y |-> ny, g |-> tentativeG, h |-> hh,
                     f |-> tentativeG + hh]
    IN  IF ~canStep(p, cur.x, cur.y, i) THEN s
        ELSE IF ~improves(s.gScore, neighborKey, tentativeG) THEN s
        ELSE [open     |-> heapPush(s.open, neighbor),
              cameFrom |-> (neighborKey :> [x |-> cur.x, y |-> cur.y])
                               @@ s.cameFrom,
              gScore   |-> (neighborKey :> tentativeG) @@ s.gScore]

RECURSIVE explore(_, _, _, _, _)
explore(p, goal, cur, s, i) ==
    IF i > 8 THEN s
    ELSE Strict(LAMBDA s2 : explore(p, goal, cur, s2, i + 1), relax(p, goal, cur, s, i))

\* reconstructPath's walk over cameFrom: the cells from the start to `cell`.
RECURSIVE cellsTo(_, _, _, _)
cellsTo(p, cameFrom, cell, acc) ==
    LET key == cell.y * p.width + cell.x
    IN  IF key \notin DOMAIN cameFrom THEN <<cell>> \o acc
        ELSE Strict(LAMBDA acc2 : cellsTo(p, cameFrom, cameFrom[key], acc2),
                    <<cell>> \o acc)

\* The main loop (lines 103-144).  Returns the unsimplified route as cells
\* (<<>> when the open set runs empty) and the number of pops made.
RECURSIVE search(_, _, _, _)
search(p, goal, s, pops) ==
    IF Len(s.open) = 0 THEN [found |-> FALSE, route |-> <<>>, pops |-> pops]
    ELSE Strict(LAMBDA popped :
           LET current == popped.node
           IN  IF current.x = goal.x /\ current.y = goal.y
               THEN [found |-> TRUE,
                     route |-> cellsTo(p, s.cameFrom,
                                       [x |-> current.x, y |-> current.y], <<>>),
                     pops  |-> pops + 1]
               ELSE Strict(LAMBDA s2 : search(p, goal, s2, pops + 1),
                           explore(p, goal, current,
                                   [s EXCEPT !.open = popped.rest], 1)),
           heapPop(s.open))

(***************************************************************************)
(* Pathfinder: simplifyPath.                                               *)
(***************************************************************************)
\* Only a turn of a right angle or more counts as a change of direction.
dotBelow099_rightAngles(dx1, dy1, dx2, dy2) == dx1 * dx2 + dy1 * dy2 <= 0

\* dot < 0.99 for the normalised directions of (dx1,dy1) and (dx2,dy2), both
\* non-zero: n/(len1*len2) < 99/100, decided without the square roots.
dotBelow099(dx1, dy1, dx2, dy2) ==
    LET n  == dx1 * dx2 + dy1 * dy2
        l1 == dx1 * dx1 + dy1 * dy1
        l2 == dx2 * dx2 + dy2 * dy2
    IN  n <= 0 \/ 10000 * n * n < 9801 * l1 * l2

RECURSIVE simplifyLoop(_, _, _)
simplifyLoop(path, result, i) ==
    IF i >= Len(path) THEN result
    ELSE
      LET prev == result[Len(result)]
          curr == path[i]
          next == path[i + 1]
          dx1  == curr.X - prev.X
          dy1  == curr.Y - prev.Y
          dx2  == next.X - curr.X
          dy2  == next.Y - curr.Y
          keep == /\ dx1 * dx1 + dy1 * dy1 > 0
                  /\ dx2 * dx2 + dy2 * dy2 > 0
                  /\ dotBelow099(dx1, dy1, dx2, dy2)
      IN  Strict(LAMBDA result2 : simplifyLoop(path, result2, i + 1),
                 IF keep THEN Append(result, curr) ELSE result)

simplifyPath_dropsLast(path) ==
    IF Len(path) <= 2 THEN path
    ELSE simplifyLoop(path, <<path[1]>>, 2)

simplifyPath(path) ==
    IF Len(path) <= 2 THEN path
    ELSE Append(simplifyLoop(path, <<path[1]>>, 2), path[Len(path)])

\* reconstructPath: the cells as world waypoints, then simplified.
reconstructPath(p, route) ==
    simplifyPath([k \in 1 .. Len(route) |-> GridToWorld(p, route[k].x, route[k].y)])

(***************************************************************************)
(* Pathfinder: FindPath.  The result records what the claims observe:      *)
(*   path   the returned waypoints (NoPath for nil)                        *)
(*   route  the cell-by-cell route before simplification                   *)
(*   pops   how many nodes the search popped                               *)
(***************************************************************************)
FindPath(p, start, goal) ==
    LET sc == WorldToGrid(p, start)
        gc == WorldToGrid(p, goal)
    IN  IF IsBlocked(p, sc.x, sc.y) \/ IsBlocked(p, gc.x, gc.y)
        THEN [path |-> NoPath, route |-> <<>>, pops |-> 0]
        ELSE IF sc.x = gc.x /\ sc.y = gc.y
        THEN [path |-> <<GridToWorld(p, gc.x, gc.y)>>, route |-> <<gc>>, pops |-> 0]
        ELSE
          LET hh == heuristic(sc.x, sc.y, gc.x, gc.y)
              startNode == [x |-> sc.x, y |-> sc.y, g |-> 0, h |-> hh, f |-> hh]
              r == search(p, gc,
                          [open     |-> heapPush(<<>>, startNode),
                           cameFrom |-> <<>>,
                           gScore   |-> (sc.y * p.width + sc.x) :> 0],
                          0)
          IN  IF r.found
              THEN [path |-> reconstructPath(p, r.route), route |-> r.route,
                    pops |-> r.pops]
              ELSE [path |-> NoPath, route |-> <<>>, pops |-> r.pops]

(***************************************************************************)
(* The pathfinder as a state machine: the map code calls SetBlocked, the   *)
(* unit manager calls FindPath.                                            *)
(***************************************************************************)
pf == [width |-> width, height |-> height, blocked |-> blocked]

NotCalled == [called |-> FALSE, start |-> [X |-> 0, Y |-> 0],
              goal |-> [X |-> 0, Y |-> 0],
              path |-> NoPath, route |-> <<>>, pops |-> 0]

\* Centres of all cells of the grid.
Centres(p) ==
    {GridToWorld(p, x, y) : x \in 0 .. (p.width - 1), y \in 0 .. (p.height - 1)}

\* World positions off the cell centres: the low corner of cell (0,0); half a
\* cell and a full cell beyond the low edges; on the high edges.
Probes(p) ==
    LET ox == (p.width * cellSize) \div 2
        oy == (p.height * cellSize) \div 2
        cx == cellSize \div 2 - ox
        cy == cellSize \div 2 - oy
    IN  { [X |-> -ox, Y |-> -oy],
          [X |-> -ox - cellSize \div 2, Y |-> cy],
          [X |-> cx, Y |-> -oy - cellSize \div 2],
          [X |-> -ox - cellSize, Y |-> cy],
          [X |-> ox, Y |-> cy],
          [X |-> cx, Y |-> oy] }

NumBlocked(b) == Cardinality({i \in DOMAIN b : b[i]})

PathInit ==
    /\ width = GridW
    /\ height = GridH
    /\ blocked = NewPathfinder(GridW, GridH)
    /\ fp = NotCalled
    /\ NoBase
    /\ NoUnit
    /\ NoBaseManager
    /\ NoCombat
    /\ NoManager

\* Pathfinder.SetBlocked (out-of-range cells are ignored).  The program is
\* single-threaded: the grid changes only between FindPath calls.
SetBlocked(x, y, b) ==
    /\ ~fp.called
    /\ blocked' = IF x >= 0 /\ x < width /\ y >= 0 /\ y < height
                  THEN [blocked EXCEPT ![y * width + x] = b]
                  ELSE blocked
    /\ UNCHANGED <<width, height, fp, outsidePathfinder>>

DoSetBlocked ==
    \E x \in -1 .. width, y \in -1 .. height, b \in BOOLEAN :
        /\ SetBlocked(x, y, b)
        /\ NumBlocked(blocked') <= MaxBlocked

CallFindPath(start, goal) ==
    LET r == FindPath(pf, start, goal)
    IN  /\ ~fp.called
        /\ fp' = [called |-> TRUE, start |-> start, goal |-> goal,
                  path |-> r.path, route |-> r.route, pops |-> r.pops]
        /\ UNCHANGED <<width, height, blocked, outsidePathfinder>>

\* The calls explored: every pair of cell centres, and every probe against the
\* centre of cell (0,0), as start and as goal.
CallPairs(p) ==
    (Centres(p) \X Centres(p))
        \cup ({GridToWorld(p, 0, 0)} \X Probes(p))
        \cup (Probes(p) \X {GridToWorld(p, 0, 0)})

DoFindPath ==
    /\ ~fp.called
    /\ \E pair \in CallPairs(pf) : CallFindPath(pair[1], pair[2])

\* The caller has taken the result.
FindPathReturned ==
    /\ fp.called
    /\ fp' = NotCalled
    /\ UNCHANGED <<width, height, blocked, outsidePathfinder>>

PathNext == DoSetBlocked \/ DoFindPath \/ FindPathReturned

PathSpec == PathInit /\ [][PathNext]_vars

(***************************************************************************)
(* The obstacle scenario: a 10x10 grid whose cells (4,0)..(4,8) get        *)
(* blocked one by one, and FindPath from cell (0,0) to cell (9,0).         *)
(***************************************************************************)
Wall == {<<4, y>> : y \in 0 .. 8}

WallInit ==
    /\ width = 10
    /\ height = 10
    /\ blocked = NewPathfinder(10, 10)
    /\ fp = NotCalled
    /\ NoBase
    /\ NoUnit
    /\ NoBaseManager
    /\ NoCombat
    /\ NoManager

WallSetBlocked == \E c \in Wall, b \in BOOLEAN : SetBlocked(c[1], c[2], b)

WallFindPath == CallFindPath(GridToWorld(pf, 0, 0), GridToWorld(pf, 9, 0))

WallNext == WallSetBlocked \/ WallFindPath \/ FindPathReturned

WallSpec == WallInit /\ [][WallNext]_vars

(***************************************************************************)
(* float32 on [0, 4).  A value is the integer n standing for n * 2^-29;    *)
(* every float32 in [2^-6, 4) is such a value, and so is every sum or      *)
(* difference of such values once rounded.  F32(n, d) is the float32       *)
(* nearest to n/d, ties to even: the rounding of IEEE 754 that Go's        *)
(* float32 operators apply to each result.                                 *)
(***************************************************************************)
One32 == 2 ^ 29

RECURSIVE UlpOf(_)
UlpOf(s) == IF s < 2 ^ 24 THEN 1 ELSE 2 * UlpOf(s \div 2)

RoundEven(n, d) ==
    LET q == n \div d
        r == n % d
    IN  IF 2 * r < d THEN q
        ELSE IF 2 * r > d THEN q + 1
        ELSE IF q % 2 = 0 THEN q ELSE q + 1

F32(n, d) == LET u == UlpOf(n \div d) IN u * RoundEven(n, d * u)

\* The float32 of a frame time given in eighths of a second (exact).
Seconds32(dt) == dt * 2 ^ 26

(***************************************************************************)
(* Base (pkg/base).                                                        *)
(***************************************************************************)
OwnerNeutral == "Neutral"
OwnerPlayer1 == "Player1"
OwnerPlayer2 == "Player2"
Owners == {OwnerNeutral, OwnerPlayer1, OwnerPlayer2}

TypeHQ == "HQ"
TypeOutpost == "Outpost"

\* Times in seconds, rates in credits per second, health in points.
DefaultConfig ==
    [OutpostIncomeRate |-> 15, HQIncomeRate |-> 5, CaptureTime |-> 5,
     HQMaxHealth |-> 500, OutpostMaxHealth |-> 200, SpawnCooldown |-> 2]

NewBase(baseType, owner, cfg) ==
    [Type |-> baseType,
     Owner |-> owner,
     CaptureProgress |-> 0,
     CapturingOwner |-> OwnerNeutral,
     Health |-> IF baseType = TypeHQ THEN cfg.HQMaxHealth ELSE cfg.OutpostMaxHealth,
     IncomeRate |-> IF baseType = TypeHQ THEN cfg.HQIncomeRate ELSE cfg.OutpostIncomeRate,
     AccumulatedIncome |-> 0,
     SpawnCooldown |-> 0,
     SpawnQueue |-> <<>>,
     OccupyingInfantry |-> 0,
     OccupyingOwner |-> OwnerNeutral]

\* The comparison of line 170, CaptureProgress >= 1.0.
captureComplete(progress) == progress >= One32

\* Base.updateCapture; dt in eighths of a second.
updateCapture_capturesHQ(b, dt, cfg) ==
    IF b.OccupyingInfantry <= 0 THEN
        IF b.CaptureProgress > 0
        THEN LET left == b.CaptureProgress - F32(Seconds32(dt), cfg.CaptureTime)
             IN  IF left < 0
                 THEN [b EXCEPT !.CaptureProgress = 0, !.CapturingOwner = OwnerNeutral]
                 ELSE [b EXCEPT !.CaptureProgress = F32(left, 1)]
        ELSE b
    ELSE IF b.OccupyingOwner = b.Owner THEN b
    ELSE LET c == IF b.CapturingOwner # b.OccupyingOwner
                  THEN [b EXCEPT !.CapturingOwner = b.OccupyingOwner,
                                 !.CaptureProgress = 0]
                  ELSE b
             captureSpeed ==
                 F32(F32(b.OccupyingInfantry * Seconds32(dt), 1), cfg.CaptureTime)
             progress == F32(c.CaptureProgress + captureSpeed, 1)
         IN  IF captureComplete(progress)
             THEN [c EXCEPT !.Owner = c.CapturingOwner,
                            !.CaptureProgress = 0,
                            !.CapturingOwner = OwnerNeutral,
                            !.OccupyingInfantry = 0,
                            !.OccupyingOwner = OwnerNeutral]
             ELSE [c EXCEPT !.CaptureProgress = progress]

updateCapture_keepsInfantry(b, dt, cfg) ==
    IF b.Type = TypeHQ THEN b
    ELSE IF b.OccupyingInfantry <= 0 THEN
        IF b.CaptureProgress > 0
        THEN LET left == b.CaptureProgress - F32(Seconds32(dt), cfg.CaptureTime)
             IN  IF left < 0
                 THEN [b EXCEPT !.CaptureProgress = 0, !.CapturingOwner = OwnerNeutral]
                 ELSE [b EXCEPT !.CaptureProgress = F32(left, 1)]
        ELSE b
    ELSE IF b.OccupyingOwner = b.Owner THEN b
    ELSE LET c == IF b.CapturingOwner # b.OccupyingOwner
                  THEN [b EXCEPT !.CapturingOwner = b.OccupyingOwner,
                                 !.CaptureProgress = 0]
                  ELSE b
             captureSpeed ==
                 F32(F32(b.OccupyingInfantry * Seconds32(dt), 1), cfg.CaptureTime)
             progress == F32(c.CaptureProgress + captureSpeed, 1)
         IN  IF captureComplete(progress)
             THEN [c EXCEPT !.Owner = c.CapturingOwner,
                            !.CaptureProgress = 0,
                            !.CapturingOwner = OwnerNeutral,
                            !.OccupyingOwner = OwnerNeutral]
             ELSE [c EXCEPT !.CaptureProgress = progress]

updateCapture_inheritsProgress(b, dt, cfg) ==
    IF b.Type = TypeHQ THEN b
    ELSE IF b.OccupyingInfantry <= 0 THEN
        IF b.CaptureProgress > 0
        THEN LET left == b.CaptureProgress - F32(Seconds32(dt), cfg.CaptureTime)
             IN  IF left < 0
                 THEN [b EXCEPT !.CaptureProgress = 0, !.CapturingOwner = OwnerNeutral]
                 ELSE [b EXCEPT !.CaptureProgress = F32(left, 1)]
        ELSE b
    ELSE IF b.OccupyingOwner = b.Owner THEN b
    ELSE LET c == IF b.CapturingOwner # b.OccupyingOwner
                  THEN [b EXCEPT !.CapturingOwner = b.OccupyingOwner]
                  ELSE b
             captureSpeed ==
                 F32(F32(b.OccupyingInfantry * Seconds32(dt), 1), cfg.CaptureTime)
             progress == F32(c.CaptureProgress + captureSpeed, 1)
         IN  IF captureComplete(progress)
             THEN [c EXCEPT !.Owner = c.CapturingOwner,
                            !.CaptureProgress = 0,
                            !.CapturingOwner = OwnerNeutral,
                            !.OccupyingInfantry = 0,
                            !.OccupyingOwner = OwnerNeutral]
             ELSE [c EXCEPT !.CaptureProgress = progress]

updateCapture_decaysBelowZero(b, dt, cfg) ==
    IF b.Type = TypeHQ THEN b
    ELSE IF b.OccupyingInfantry <= 0 THEN
        IF b.CaptureProgress > 0
        THEN LET left == b.CaptureProgress - F32(Seconds32(dt), cfg.CaptureTime)
             IN  IF left < 0
                 THEN [b EXCEPT !.CaptureProgress = left]
                 ELSE [b EXCEPT !.CaptureProgress = F32(left, 1)]
        ELSE b
    ELSE IF b.OccupyingOwner = b.Owner THEN b
    ELSE LET c == IF b.CapturingOwner # b.OccupyingOwner
                  THEN [b EXCEPT !.CapturingOwner = b.OccupyingOwner,
                                 !.CaptureProgress = 0]
                  ELSE b
             captureSpeed ==
                 F32(F32(b.OccupyingInfantry * Seconds32(dt), 1), cfg.CaptureTime)
             progress == F32(c.CaptureProgress + captureSpeed, 1)
         IN  IF captureComplete(progress)
             THEN [c EXCEPT !.Owner = c.CapturingOwner,
                            !.CaptureProgress = 0,
                            !.CapturingOwner = OwnerNeutral,
                            !.OccupyingInfantry = 0,
                            !.OccupyingOwner = OwnerNeutral]
             ELSE [c EXCEPT !.CaptureProgress = progress]

updateCapture(b, dt, cfg) ==
    IF b.Type = TypeHQ THEN b
    ELSE IF b.OccupyingInfantry <= 0 THEN
        IF b.CaptureProgress > 0
        THEN LET left == b.CaptureProgress - F32(Seconds32(dt), cfg.CaptureTime)
             IN  IF left < 0
                 THEN [b EXCEPT !.CaptureProgress = 0, !.CapturingOwner = OwnerNeutral]
                 ELSE [b EXCEPT !.CaptureProgress = F32(left, 1)]
        ELSE b
    ELSE IF b.OccupyingOwner = b.Owner THEN b
    ELSE LET c == IF b.CapturingOwner # b.OccupyingOwner
                  THEN [b EXCEPT !.CapturingOwner = b.OccupyingOwner,
                                 !.CaptureProgress = 0]
                  ELSE b
             captureSpeed ==
                 F32(F32(b.OccupyingInfantry * Seconds32(dt), 1), cfg.CaptureTime)
             progress == F32(c.CaptureProgress + captureSpeed, 1)
         IN  IF captureComplete(progress)
             THEN [c EXCEPT !.Owner = c.CapturingOwner,
                            !.CaptureProgress = 0,
                            !.CapturingOwner = OwnerNeutral,
                            !.OccupyingInfantry = 0,
                            !.OccupyingOwner = OwnerNeutral]
             ELSE [c EXCEPT !.CaptureProgress = progress]

\* Base.Update; dt, the spawn cooldown and hence the income (rate * dt) are in
\* eighths.
BaseUpdate(b, dt, cfg) ==
    LET earned == IF b.Owner # OwnerNeutral
                  THEN [b EXCEPT !.AccumulatedIncome = @ + b.IncomeRate * dt]
                  ELSE b
        captured == updateCapture(earned, dt, cfg)
    IN  IF captured.SpawnCooldown > 0
        THEN [captured EXCEPT !.SpawnCooldown = @ - dt]
        ELSE captured

(***************************************************************************)
(* A base as a state machine: the game reports the infantry inside with    *)
(* SetOccupyingInfantry, updates the base every frame and collects its     *)
(* income.  tick records, for the claims, the capture the last Update took *)
(* part in: a capture that started from progress 0 and has had infantry of *)
(* a team other than the owner present at every Update since.              *)
(*   capturing  the last Update belonged to such a capture                 *)
(*   by         the capturing team                                         *)
(*   held       the infantry-time accumulated, in infantry-eighths         *)
(*   flipped    the last Update changed the owner                          *)
(*   now        the game time elapsed, in eighths of a second              *)
(***************************************************************************)
NoTick == [capturing |-> FALSE, by |-> OwnerNeutral, held |-> 0, flipped |-> FALSE, now |-> 0]

BaseInit ==
    /\ \E t \in {TypeHQ, TypeOutpost}, o \in Owners :
           base = NewBase(t, o, DefaultConfig)
    /\ tick = NoTick
    /\ NoPathfinder
    /\ NoUnit
    /\ NoBaseManager
    /\ NoCombat
    /\ NoManager

SetOccupyingInfantry(count, owner) ==
    /\ base' = [base EXCEPT !.OccupyingInfantry = count, !.OccupyingOwner = owner]
    /\ UNCHANGED <<tick, outsideBase>>

DoSetOccupyingInfantry ==
    \/ SetOccupyingInfantry(0, OwnerNeutral)
    \/ \E count \in 1 .. MaxInfantry, owner \in {OwnerPlayer1, OwnerPlayer2} :
           SetOccupyingInfantry(count, owner)

Observed(b, dt, after) ==
    LET present == /\ b.Type = TypeOutpost
                   /\ b.OccupyingInfantry >= 1
                   /\ b.OccupyingOwner # b.Owner
        fresh == b.CaptureProgress = 0 \/ b.CapturingOwner # b.OccupyingOwner
        going == tick.capturing /\ ~tick.flipped /\ tick.by = b.OccupyingOwner
    IN  IF present /\ (fresh \/ going)
        THEN [capturing |-> TRUE,
              by |-> b.OccupyingOwner,
              held |-> (IF fresh THEN 0 ELSE tick.held) + b.OccupyingInfantry * dt,
              flipped |-> after.Owner # b.Owner,
              now |-> tick.now + dt]
        ELSE [NoTick EXCEPT !.now = tick.now + dt]

DoBaseUpdate ==
    \E dt \in 1 .. MaxDt :
        /\ base.AccumulatedIncome <= 8 * MaxIncome
        /\ tick.now + dt <= MaxTime
        /\ base' = BaseUpdate(base, dt, DefaultConfig)
        /\ tick' = Observed(base, dt, base')
        /\ UNCHANGED outsideBase

CollectIncome ==
    /\ base' = [base EXCEPT !.AccumulatedIncome = 0]
    /\ UNCHANGED <<tick, outsideBase>>

BaseNext == DoSetOccupyingInfantry \/ DoBaseUpdate \/ CollectIncome

BaseSpec == BaseInit /\ [][BaseNext]_vars

(***************************************************************************)
(* A siege: an Outpost over a few frames, with the teams' infantry coming  *)
(* and going between them.  Here tick records the last Update itself:      *)
(*   now  the game time elapsed, in eighths of a second                    *)
(*   dt   the frame time of the last Update, 0 before the first            *)
(*   was  the base as that Update found it                                 *)
(***************************************************************************)
SiegeInit ==
    /\ \E o \in Owners : base = NewBase(TypeOutpost, o, DefaultConfig)
    /\ tick = [now |-> 0, dt |-> 0, was |-> base]
    /\ NoPathfinder
    /\ NoUnit
    /\ NoBaseManager
    /\ NoCombat
    /\ NoManager

SiegeUpdate ==
    \E dt \in 1 .. MaxDt :
        /\ tick.now + dt <= MaxSiege
        /\ base' = BaseUpdate(base, dt, DefaultConfig)
        /\ tick' = [now |-> tick.now + dt, dt |-> dt, was |-> base]
        /\ UNCHANGED outsideBase

SiegeNext == DoSetOccupyingInfantry \/ SiegeUpdate \/ CollectIncome

SiegeSpec == SiegeInit /\ [][SiegeNext]_vars

(***************************************************************************)
(* Unit (pkg/unit): types and configuration.                               *)
(***************************************************************************)
TeamPlayer == "Player"
TeamEnemy == "Enemy"
Teams == {TeamPlayer, TeamEnemy}

TypeInfantry == "Infantry"
TypeTank == "Tank"
TypeMotorcycle == "Motorcycle"
TypeSAM == "SAM"
TypeBoat == "Boat"
TypeSupply == "Supply"
UnitTypes == {TypeInfantry, TypeTank, TypeMotorcycle, TypeSAM, TypeBoat, TypeSupply}

StateIdle == "Idle"
StateMoving == "Moving"
StateAttacking == "Attacking"
StateDead == "Dead"
StateCapturing == "Capturing"
StateBeingCarried == "BeingCarried"

OrderNone == "None"
OrderAttackHQ == "AttackHQ"
OrderAttackNearest == "AttackNearest"
OrderCaptureOutpost == "CaptureOutpost"
OrderDefendPosition == "DefendPosition"
OrderPatrolArea == "PatrolArea"

\* GetConfig.  Speed, TurnSpeed, AttackRange, AttackRate and Armor in tenths;
\* AttackDamage and MaxHealth in health points.
GetConfig(t) ==
    CASE t = TypeTank ->
           [Type |-> TypeTank, Speed |-> 30, TurnSpeed |-> 20,
            AttackRange |-> 60, AttackDamage |-> 20, AttackRate |-> 8,
            CanAttackAir |-> FALSE,
            CanAttackGround |-> TRUE, MaxHealth |-> 100, Armor |-> 3,
            CanCapture |-> FALSE, Cost |-> 400]
      [] t = TypeMotorcycle ->
           [Type |-> TypeMotorcycle, Speed |-> 60, TurnSpeed |-> 50,
            AttackRange |-> 40, AttackDamage |-> 8, AttackRate |-> 20,
            CanAttackAir |-> FALSE,
            CanAttackGround |-> TRUE, MaxHealth |-> 40, Armor |-> 0,
            CanCapture |-> FALSE, Cost |-> 200]
      [] t = TypeSAM ->
           [Type |-> TypeSAM, Speed |-> 25, TurnSpeed |-> 30,
            AttackRange |-> 80, AttackDamage |-> 25, AttackRate |-> 10,
            CanAttackAir |-> TRUE,
            CanAttackGround |-> FALSE, MaxHealth |-> 50, Armor |-> 1,
            CanCapture |-> FALSE, Cost |-> 350]
      [] t = TypeBoat ->
           [Type |-> TypeBoat, Speed |-> 40, TurnSpeed |-> 25,
            AttackRange |-> 50, AttackDamage |-> 15, AttackRate |-> 12,
            CanAttackAir |-> FALSE,
            CanAttackGround |-> TRUE, MaxHealth |-> 60, Armor |-> 2,
            CanCapture |-> FALSE, Cost |-> 300]
      [] t = TypeSupply ->
           [Type |-> TypeSupply, Speed |-> 35, TurnSpeed |-> 20,
            AttackRange |-> 0, AttackDamage |-> 0, AttackRate |-> 0,
            CanAttackAir |-> FALSE,
            CanAttackGround |-> FALSE, MaxHealth |-> 80, Armor |-> 1,
            CanCapture |-> FALSE, Cost |-> 250]
      [] OTHER ->
           [Type |-> TypeInfantry, Speed |-> 20, TurnSpeed |-> 40,
            AttackRange |-> 30, AttackDamage |-> 5, AttackRate |-> 15,
            CanAttackAir |-> FALSE,
            CanAttackGround |-> TRUE, MaxHealth |-> 30, Armor |-> 0,
            CanCapture |-> TRUE, Cost |-> 100]

(***************************************************************************)
(* Unit: the entity.  Units live on the line X = 0 of the world: Position, *)
(* Velocity, Objective, OrderTarget are Z coordinates (positions in half   *)
(* world units, Velocity in tenths of a world unit per second) and         *)
(* Rotation is in degrees.  Target is the ID of the targeted unit, Nil for *)
(* none.                                                                   *)
(***************************************************************************)
Nil == 0

New(id, unitType, team, pos) ==
    [ID |-> id,
     Type |-> unitType,
     Team |-> team,
     Position |-> pos,
     Velocity |-> 0,
     Rotation |-> 0,
     State |-> StateIdle,
     Order |-> OrderNone,
     Health |-> 10 * GetConfig(unitType).MaxHealth,
     MaxHealth |-> 10 * GetConfig(unitType).MaxHealth,
     AttackCooldown |-> 0,
     Target |-> Nil,
     Objective |-> 0,
     HasObjective |-> FALSE,
     Path |-> <<>>,
     PathIndex |-> 0,
     OrderTarget |-> 0,
     PatrolCenter |-> 0,
     PatrolRadius |-> 0]

Config(u) == GetConfig(u.Type)

\* Unit.TakeDamage; amount in health points.
TakeDamage_flatArmor(u, amount) ==
    LET left == u.Health - (10 * amount - Config(u).Armor)
    IN  IF left <= 0
        THEN [u EXCEPT !.Health = 0, !.State = StateDead]
        ELSE [u EXCEPT !.Health = left]

TakeDamage(u, amount) ==
    LET actualDamage == amount * (10 - Config(u).Armor)
        left == u.Health - actualDamage
    IN  IF left <= 0
        THEN [u EXCEPT !.Health = 0, !.State = StateDead]
        ELSE [u EXCEPT !.Health = left]

\* Unit.Heal; amount in health points.
Heal(u, amount) ==
    LET more == u.Health + 10 * amount
    IN  [u EXCEPT !.Health = IF more > u.MaxHealth THEN u.MaxHealth ELSE more]

IsDead(u) == u.Health <= 0 \/ u.State = StateDead

(***************************************************************************)
(* Unit: movement.  On the line X = 0 the heading toward a target is 0     *)
(* degrees (+Z) or 180 degrees (-Z), the distance is |dz|, and sines and   *)
(* cosines are taken of multiples of 90 degrees only.  Distances are       *)
(* compared in tenths of a world unit: 5 * (a distance in half units).     *)
(***************************************************************************)
atan2(dz) == IF dz < 0 THEN 180 ELSE 0

Cos(a) == IF a = 0 THEN 1 ELSE IF a = 180 \/ a = -180 THEN -1 ELSE 0

RECURSIVE normalizeAngle(_)
normalizeAngle(a) ==
    IF a > 180 THEN normalizeAngle(a - 360)
    ELSE IF a < -180 THEN normalizeAngle(a + 360)
    ELSE a

\* lerpAngle(a, b, t) with t = turn / 120 (TurnSpeed in tenths times dt in
\* twelfths); exact when diff * turn is a multiple of 120, as it is for t = 1.
lerpAngle(a, b, turn) ==
    LET a1 == normalizeAngle(a)
        b1 == normalizeAngle(b)
        d0 == b1 - a1
        d1 == IF d0 > 180 THEN d0 - 360 ELSE d0
        diff == IF d1 < -180 THEN d1 + 360 ELSE d1
    IN  normalizeAngle(a1 + TruncDiv(diff * turn, 120))

\* Position += Velocity * dt, in half world units.
Travel(velocity, dt) == TruncDiv(velocity * dt, 60)

moveToward(u, target, dt) ==
    LET dz == target - u.Position
        dist == Abs(dz)
    IN  IF 5 * dist < 1
        THEN [u EXCEPT !.Velocity = 0]
        ELSE LET targetRot == atan2(dz)
                 rot == lerpAngle(u.Rotation, targetRot, Config(u).TurnSpeed * dt)
                 angleDiff == Abs(normalizeAngle(targetRot - rot))
                 velocity == IF angleDiff < 45
                             THEN Cos(rot) * Config(u).Speed
                             ELSE TruncDiv(u.Velocity * 9, 10)
             IN  [u EXCEPT !.Rotation = rot,
                           !.Velocity = velocity,
                           !.Position = @ + Travel(velocity, dt)]

updateMovement(u, dt) ==
    IF u.PathIndex >= Len(u.Path)
    THEN [u EXCEPT !.HasObjective = FALSE, !.Path = <<>>]
    ELSE LET target == u.Path[u.PathIndex + 1].Y
             dist == Abs(target - u.Position)
         IN  IF 5 * dist < 5
             THEN IF u.PathIndex + 1 >= Len(u.Path)
                  THEN [u EXCEPT !.PathIndex = @ + 1, !.HasObjective = FALSE,
                                 !.Path = <<>>, !.Velocity = 0]
                  ELSE [u EXCEPT !.PathIndex = @ + 1]
             ELSE moveToward(u, target, dt)

\* moveTowardOrder: the unit moved, and whether it is within attack range.
moveTowardOrder(u, target, dt) ==
    LET dz == target - u.Position
        dist == Abs(dz)
    IN  IF 5 * dist < Config(u).AttackRange
        THEN [unit |-> [u EXCEPT !.Velocity = 0, !.State = StateIdle], reached |-> TRUE]
        ELSE IF 5 * dist > 1
        THEN LET velocity == (IF dz < 0 THEN -1 ELSE 1) * Config(u).Speed
             IN  [unit |-> [u EXCEPT !.State = StateMoving,
                                     !.Velocity = velocity,
                                     !.Position = @ + Travel(velocity, dt),
                                     !.Rotation = atan2(dz)],
                  reached |-> FALSE]
        ELSE [unit |-> u, reached |-> FALSE]

\* 1.0 / AttackRate, in twelfths of a second; no finite value for rate 0.
Never == 2 ^ 30

AttackPeriod(u) ==
    IF Config(u).AttackRate = 0 THEN Never ELSE 120 \div Config(u).AttackRate

\* The attack of executeAttackOrder and of Manager.updateCombat: h is the
\* store of units by ID, id the attacker.
strike(h, id) ==
    LET u == h[id]
        hit == [h EXCEPT ![u.Target] = TakeDamage(@, Config(u).AttackDamage)]
    IN  [hit EXCEPT ![id].State = StateAttacking,
                    ![id].AttackCooldown = AttackPeriod(u)]

executeAttackOrder(h, id, dt) ==
    LET r == moveTowardOrder(h[id], h[id].OrderTarget, dt)
        moved == [h EXCEPT ![id] = r.unit]
    IN  IF r.reached /\ r.unit.Target # Nil /\ r.unit.AttackCooldown <= 0
        THEN strike(moved, id)
        ELSE moved

executeDefendOrder(u, dt) ==
    IF 5 * Abs(u.OrderTarget - u.Position) > 20
    THEN moveTowardOrder(u, u.OrderTarget, dt).unit
    ELSE [u EXCEPT !.Velocity = 0, !.State = StateIdle]

\* executeOrder, for the orders that keep a unit on the line (every order but
\* the random wandering of OrderPatrolArea).
executeOrder(h, id, dt) ==
    LET u == h[id]
    IN  CASE u.Order = OrderAttackHQ \/ u.Order = OrderAttackNearest ->
               executeAttackOrder(h, id, dt)
          [] u.Order = OrderCaptureOutpost ->
               [h EXCEPT ![id] = moveTowardOrder(u, u.OrderTarget, dt).unit]
          [] u.Order = OrderDefendPosition ->
               [h EXCEPT ![id] = executeDefendOrder(u, dt)]
          [] OTHER ->
               [h EXCEPT ![id].State = StateIdle, ![id].Velocity = 0]

\* Unit.Update, of the unit id in the store h.
Update_carriedMoves(h, id, dt) ==
    LET u == h[id]
    IN  IF u.State = StateDead THEN h
        ELSE LET cooled == IF u.AttackCooldown > 0
                           THEN [h EXCEPT ![id].AttackCooldown = @ - dt]
                           ELSE h
                 c == cooled[id]
                 acted == IF c.Order # OrderNone
                          THEN executeOrder(cooled, id, dt)
                          ELSE IF c.HasObjective /\ Len(c.Path) > 0
                                  /\ c.PathIndex < Len(c.Path)
                          THEN [cooled EXCEPT ![id] = updateMovement(c, dt)]
                          ELSE IF c.HasObjective
                          THEN [cooled EXCEPT ![id] = moveToward(c, c.Objective, dt)]
                          ELSE cooled
                 speed == Abs(acted[id].Velocity)
             IN  IF acted[id].State # StateAttacking /\ acted[id].State # StateCapturing
                 THEN [acted EXCEPT ![id].State =
                           IF speed > 1 THEN StateMoving ELSE StateIdle]
                 ELSE acted

Update(h, id, dt) ==
    LET u == h[id]
    IN  IF u.State = StateDead \/ u.State = StateBeingCarried THEN h
        ELSE LET cooled == IF u.AttackCooldown > 0
                           THEN [h EXCEPT ![id].AttackCooldown = @ - dt]
                           ELSE h
                 c == cooled[id]
                 acted == IF c.Order # OrderNone
                          THEN executeOrder(cooled, id, dt)
                          ELSE IF c.HasObjective /\ Len(c.Path) > 0
                                  /\ c.PathIndex < Len(c.Path)
                          THEN [cooled EXCEPT ![id] = updateMovement(c, dt)]
                          ELSE IF c.HasObjective
                          THEN [cooled EXCEPT ![id] = moveToward(c, c.Objective, dt)]
                          ELSE cooled
                 speed == Abs(acted[id].Velocity)
             IN  IF acted[id].State # StateAttacking /\ acted[id].State # StateCapturing
                 THEN [acted EXCEPT ![id].State =
                           IF speed > 1 THEN StateMoving ELSE StateIdle]
                 ELSE acted

SetObjective(u, pos) ==
    [u EXCEPT !.Objective = pos, !.HasObjective = TRUE, !.Path = <<>>, !.PathIndex = 0]

SetPath(u, path) == [u EXCEPT !.Path = path, !.PathIndex = 0]

ClearObjective(u) ==
    [u EXCEPT !.HasObjective = FALSE, !.Path = <<>>, !.PathIndex = 0, !.Velocity = 0]

\* SetOrder; PatrolRadius in tenths of a world unit.
SetOrder(u, order, target) ==
    LET ordered == [u EXCEPT !.Order = order, !.OrderTarget = target,
                             !.HasObjective = TRUE, !.Objective = target]
    IN  IF order = OrderPatrolArea
        THEN [ordered EXCEPT !.PatrolCenter = target, !.PatrolRadius = 50]
        ELSE ordered

PickUp_keepsObjective(u) == [u EXCEPT !.State = StateBeingCarried, !.Velocity = 0]

PickUp(u) == ClearObjective([u EXCEPT !.State = StateBeingCarried, !.Velocity = 0])

Drop(u, position, order) ==
    SetOrder([u EXCEPT !.Position = position, !.State = StateIdle], order, position)

DistanceTo(u, other) == Abs(other.Position - u.Position)

CanAttack(u, target) ==
    /\ ~IsDead(target)
    /\ u.Team # target.Team
    /\ Config(u).CanAttackGround

IsInRange(u, target) == 5 * DistanceTo(u, target) <= Config(u).AttackRange

(***************************************************************************)
(* Unit manager (pkg/unit).  A manager is [units, store, nextID]: the      *)
(* slice of units as IDs in order, the Unit objects those IDs and the      *)
(* Target fields point to, and the next ID.                                *)
(***************************************************************************)
NewManager == [units |-> <<>>, store |-> <<>>, nextID |-> 1]

\* Manager.Spawn: the manager after the call and the unit returned.
Spawn_overCapacity(m, maxUnits, unitType, team, pos) ==
    IF Len(m.units) > maxUnits
    THEN [m |-> m, u |-> Nil]
    ELSE [m |-> [units |-> Append(m.units, m.nextID),
                 store |-> (m.nextID :> New(m.nextID, unitType, team, pos)) @@ m.store,
                 nextID |-> m.nextID + 1],
          u |-> m.nextID]

Spawn(m, maxUnits, unitType, team, pos) ==
    IF Len(m.units) >= maxUnits
    THEN [m |-> m, u |-> Nil]
    ELSE [m |-> [units |-> Append(m.units, m.nextID),
                 store |-> (m.nextID :> New(m.nextID, unitType, team, pos)) @@ m.store,
                 nextID |-> m.nextID + 1],
          u |-> m.nextID]

\* Manager.SpawnWithObjective; p is the manager's Pathfinder, hasPathfinder
\* whether it is set.
SpawnWithObjective_needsPath(m, maxUnits, hasPathfinder, p, unitType, team, pos, objective) ==
    LET r == Spawn(m, maxUnits, unitType, team, pos)
        path == IF hasPathfinder
                THEN FindPath(p, [X |-> 0, Y |-> pos], [X |-> 0, Y |-> objective]).path
                ELSE NoPath
    IN  IF r.u = Nil \/ path = NoPath THEN [m |-> m, u |-> Nil]
        ELSE [r EXCEPT !.m.store[r.u] =
                  SetPath(SetObjective(r.m.store[r.u], objective), path)]

SpawnWithObjective(m, maxUnits, hasPathfinder, p, unitType, team, pos, objective) ==
    LET r == Spawn(m, maxUnits, unitType, team, pos)
    IN  IF r.u = Nil THEN r
        ELSE LET aimed == SetObjective(r.m.store[r.u], objective)
                 path == IF hasPathfinder
                         THEN FindPath(p, [X |-> 0, Y |-> pos],
                                       [X |-> 0, Y |-> objective]).path
                         ELSE NoPath
                 routed == IF path # NoPath THEN SetPath(aimed, path) ELSE aimed
             IN  [r EXCEPT !.m.store[r.u] = routed]

\* The first loop of Manager.Update: Unit.Update on units[i], units[i+1], ...
RECURSIVE updateUnits(_, _, _, _)
updateUnits(h, ids, i, dt) ==
    IF i > Len(ids) THEN h
    ELSE updateUnits(Update(h, ids[i], dt), ids, i + 1, dt)

\* The enemy updateAI picks for units[i]: the nearest attackable unit, the
\* first in slice order among equally near ones; Nil when there is none.
nearestEnemy_farthest(h, ids, i) ==
    LET u == h[ids[i]]
        enemies == {j \in 1 .. Len(ids) :
                       /\ ids[j] # ids[i]
                       /\ ~IsDead(h[ids[j]])
                       /\ h[ids[j]].Team # u.Team
                       /\ CanAttack(u, h[ids[j]])}
        d(j) == DistanceTo(u, h[ids[j]])
    IN  IF enemies = {} THEN Nil
        ELSE ids[CHOOSE j \in enemies :
                     \A k \in enemies : d(j) > d(k) \/ (d(j) = d(k) /\ j <= k)]

nearestEnemy(h, ids, i) ==
    LET u == h[ids[i]]
        enemies == {j \in 1 .. Len(ids) :
                       /\ ids[j] # ids[i]
                       /\ ~IsDead(h[ids[j]])
                       /\ h[ids[j]].Team # u.Team
                       /\ CanAttack(u, h[ids[j]])}
        d(j) == DistanceTo(u, h[ids[j]])
    IN  IF enemies = {} THEN Nil
        ELSE ids[CHOOSE j \in enemies :
                     \A k \in enemies : d(j) < d(k) \/ (d(j) = d(k) /\ j <= k)]

RECURSIVE updateAI(_, _, _)
updateAI(h, ids, i) ==
    IF i > Len(ids) THEN h
    ELSE LET u == h[ids[i]]
             nearest == nearestEnemy(h, ids, i)
         IN  IF IsDead(u) THEN updateAI(h, ids, i + 1)
             ELSE IF u.Target # Nil /\ ~IsDead(h[u.Target]) /\ IsInRange(u, h[u.Target])
             THEN updateAI(h, ids, i + 1)
             ELSE IF nearest # Nil
                     /\ 5 * DistanceTo(u, h[nearest]) <= 2 * Config(u).AttackRange
             THEN updateAI([h EXCEPT ![ids[i]].Target = nearest], ids, i + 1)
             ELSE updateAI([h EXCEPT ![ids[i]].Target = Nil], ids, i + 1)

RECURSIVE updateCombat(_, _, _)
updateCombat(h, ids, i) ==
    IF i > Len(ids) THEN h
    ELSE LET u == h[ids[i]]
         IN  IF IsDead(u) \/ u.Target = Nil THEN updateCombat(h, ids, i + 1)
             ELSE IF IsDead(h[u.Target])
             THEN updateCombat([h EXCEPT ![ids[i]].Target = Nil,
                                         ![ids[i]].State = StateIdle], ids, i + 1)
             ELSE IF ~IsInRange(u, h[u.Target])
             THEN IF ~u.HasObjective
                  THEN updateCombat([h EXCEPT ![ids[i]] =
                                        SetObjective(@, h[u.Target].Position)],
                                    ids, i + 1)
                  ELSE updateCombat(h, ids, i + 1)
             ELSE IF u.AttackCooldown <= 0
             THEN updateCombat(strike(h, ids[i]), ids, i + 1)
             ELSE updateCombat(h, ids, i + 1)

cleanup_keepsTargets(h, ids) ==
    SelectSeq(ids, LAMBDA id : \/ ~IsDead(h[id])
                               \/ \E i \in 1 .. Len(ids) : h[ids[i]].Target = id)

cleanup(h, ids) == SelectSeq(ids, LAMBDA id : ~IsDead(h[id]))

\* The objects still reachable from the slice: its units and, through the
\* Target fields, the units those point to.
RECURSIVE Reachable(_, _)
Reachable(h, from) ==
    LET more == from \cup ({h[id].Target : id \in from} \ {Nil})
    IN  IF more = from THEN from ELSE Reachable(h, more)

Collected(h, ids) ==
    [id \in Reachable(h, {ids[i] : i \in 1 .. Len(ids)}) |-> h[id]]

\* Manager.Update.
ManagerUpdate(m, dt) ==
    LET updated == updateUnits(m.store, m.units, 1, dt)
        aimed == updateAI(updated, m.units, 1)
        fought == updateCombat(aimed, m.units, 1)
        alive == cleanup(fought, m.units)
    IN  [m EXCEPT !.units = alive, !.store = Collected(fought, alive)]

\* Manager.Clear.
Clear_resetsIDs(m) == [m EXCEPT !.units = <<>>, !.store = <<>>, !.nextID = 1]

Clear(m) == [m EXCEPT !.units = <<>>, !.store = <<>>]

(***************************************************************************)
(* The unit manager as a state machine.  Its world is a lane along Z, one  *)
(* cell wide, long enough for two units to be out of each other's aggro    *)
(* range.  Frames last the time in which infantry complete a turn, and     *)
(* objectives are given to infantry, so that headings stay on the lane.    *)
(* The manager has its Pathfinder set, as in main.go.                      *)
(***************************************************************************)
LaneCells == (4 * GetConfig(TypeInfantry).AttackRange) \div (10 * cellSize) + 2

FrameDt == 120 \div GetConfig(TypeInfantry).TurnSpeed

Lane == [width |-> 1, height |-> LaneCells, blocked |-> NewPathfinder(1, LaneCells)]

\* Where units enter the lane, as [team, pos]: the player's at the centre of
\* the first cell, the enemy's at the centres of the middle and the last cell.
SpawnSites ==
    {[team |-> TeamPlayer, pos |-> GridToWorld(Lane, 0, 0).Y],
     [team |-> TeamEnemy, pos |-> GridToWorld(Lane, 0, LaneCells \div 2).Y],
     [team |-> TeamEnemy, pos |-> GridToWorld(Lane, 0, LaneCells - 1).Y]}

\* The objective of a team: the far end of the lane.
ObjectiveOf(team) ==
    IF team = TeamPlayer
    THEN GridToWorld(Lane, 0, LaneCells - 1).Y
    ELSE GridToWorld(Lane, 0, 0).Y

SpawnTypes == {TypeInfantry, TypeSAM}

manager == [units |-> units, store |-> store, nextID |-> nextID]

hasPathfinder == width > 0

ManagerInit ==
    /\ units = NewManager.units
    /\ store = NewManager.store
    /\ nextID = NewManager.nextID
    /\ ret = [op |-> "NewManager", u |-> Nil]
    /\ width = Lane.width
    /\ height = Lane.height
    /\ blocked = Lane.blocked
    /\ fp = Absent
    /\ NoBase
    /\ NoUnit
    /\ NoBaseManager
    /\ NoCombat

Returned(r, op) ==
    /\ units' = r.m.units
    /\ store' = r.m.store
    /\ nextID' = r.m.nextID
    /\ ret' = [op |-> op, u |-> r.u]
    /\ UNCHANGED outsideManager

DoSpawn(unitType, team, pos) ==
    /\ Len(units) >= MaxUnits \/ nextID <= MaxID
    /\ Returned(Spawn(manager, MaxUnits, unitType, team, pos), "Spawn")

DoSpawnWithObjective(unitType, team, pos, objective) ==
    /\ Len(units) >= MaxUnits \/ nextID <= MaxID
    /\ Returned(SpawnWithObjective(manager, MaxUnits, hasPathfinder, pf,
                                   unitType, team, pos, objective),
                "SpawnWithObjective")

ManagerSpawns ==
    \E unitType \in SpawnTypes, site \in SpawnSites :
        DoSpawn(unitType, site.team, site.pos)

ManagerSpawnsWithObjective ==
    \E site \in SpawnSites :
        DoSpawnWithObjective(TypeInfantry, site.team, site.pos, ObjectiveOf(site.team))

DoManagerUpdate ==
    Returned([m |-> ManagerUpdate(manager, FrameDt), u |-> Nil], "Update")

DoClear == Returned([m |-> Clear(manager), u |-> Nil], "Clear")

ManagerNext ==
    ManagerSpawns \/ ManagerSpawnsWithObjective \/ DoManagerUpdate \/ DoClear

ManagerSpec == ManagerInit /\ [][ManagerNext]_vars

(***************************************************************************)
(* Spawning toward an objective on three lanes: a free one, one with a     *)
(* blocked cell between the enemy's two spawn sites, and one whose manager *)
(* has no Pathfinder attached.                                             *)
(***************************************************************************)
BlockedLane == [Lane EXCEPT !.blocked[LaneCells \div 2 + 1] = TRUE]

NoLane == [width |-> 0, height |-> 0, blocked |-> NewPathfinder(0, 0)]

RouteLanes == {Lane, BlockedLane, NoLane}

RouteInit ==
    /\ units = NewManager.units
    /\ store = NewManager.store
    /\ nextID = NewManager.nextID
    /\ ret = [op |-> "NewManager", u |-> Nil]
    /\ \E lane \in RouteLanes :
           /\ width = lane.width
           /\ height = lane.height
           /\ blocked = lane.blocked
    /\ fp = Absent
    /\ NoBase
    /\ NoUnit
    /\ NoBaseManager
    /\ NoCombat

RouteNext == ManagerSpawnsWithObjective \/ DoManagerUpdate \/ DoClear

RouteSpec == RouteInit /\ [][RouteNext]_vars

(***************************************************************************)
(* A skirmish: infantry of the two teams spawned within attack range of    *)
(* one another, some of them told to hold their ground under an attack     *)
(* order, and the manager updated every frame.                             *)
(***************************************************************************)
SkirmishUnits == MaxUnits + 1

\* Two places for the player's units and one for the enemy's, a cell apart;
\* the player also fields a SAM, which cannot attack ground units.
SkirmishSites ==
    {[type |-> TypeInfantry, team |-> TeamPlayer, pos |-> GridToWorld(Lane, 0, 0).Y],
     [type |-> TypeSAM, team |-> TeamPlayer, pos |-> GridToWorld(Lane, 0, 0).Y],
     [type |-> TypeInfantry, team |-> TeamPlayer, pos |-> GridToWorld(Lane, 0, 1).Y],
     [type |-> TypeInfantry, team |-> TeamEnemy, pos |-> GridToWorld(Lane, 0, 2).Y]}

SkirmishSpawns ==
    \E site \in SkirmishSites :
        /\ nextID <= SkirmishUnits
        /\ Returned(Spawn(manager, SkirmishUnits, site.type, site.team, site.pos),
                    "Spawn")

\* SetOrder on a unit of the collection: attack from where it stands.
SkirmishOrders ==
    \E i \in 1 .. Len(units) :
        /\ store[units[i]].Order = OrderNone
        /\ Returned([m |-> [manager EXCEPT !.store[units[i]] =
                                SetOrder(@, OrderAttackNearest, @.Position)],
                     u |-> units[i]],
                    "SetOrder")

SkirmishFrames == Returned([m |-> ManagerUpdate(manager, FrameDt), u |-> Nil], "Update")

SkirmishNext == SkirmishSpawns \/ SkirmishOrders \/ SkirmishFrames

SkirmishSpec == ManagerInit /\ [][SkirmishNext]_vars

(***************************************************************************)
(* A transport: the player's infantry, in the manager's collection, is     *)
(* picked up and dropped again where it is, while the enemy's infantry     *)
(* stand a cell away, within attack range, or four cells away, out of      *)
(* range and within aggro range, and the manager is updated every frame.   *)
(* Nothing removes a carried unit from the collection.                     *)
(***************************************************************************)
CarrySites ==
    {[type |-> TypeInfantry, team |-> TeamPlayer, pos |-> GridToWorld(Lane, 0, 1).Y],
     [type |-> TypeInfantry, team |-> TeamEnemy, pos |-> GridToWorld(Lane, 0, 2).Y],
     [type |-> TypeInfantry, team |-> TeamEnemy, pos |-> GridToWorld(Lane, 0, 5).Y]}

CarrySpawns ==
    \E site \in CarrySites :
        /\ nextID <= MaxUnits
        /\ Returned(Spawn(manager, MaxUnits, site.type, site.team, site.pos), "Spawn")

CarryPickUps ==
    \E i \in 1 .. Len(units) :
        /\ store[units[i]].Team = TeamPlayer
        /\ store[units[i]].State \notin {StateDead, StateBeingCarried}
        /\ Returned([m |-> [manager EXCEPT !.store[units[i]] = PickUp(@)],
                     u |-> units[i]],
                    "PickUp")

CarryDrops ==
    \E i \in 1 .. Len(units) :
        /\ store[units[i]].State = StateBeingCarried
        /\ Returned([m |-> [manager EXCEPT !.store[units[i]] =
                                Drop(@, @.Position, OrderNone)],
                     u |-> units[i]],
                    "Drop")

CarryFrames == Returned([m |-> ManagerUpdate(manager, FrameDt), u |-> Nil], "Update")

CarryNext == CarrySpawns \/ CarryPickUps \/ CarryDrops \/ CarryFrames

CarrySpec == ManagerInit /\ [][CarryNext]_vars

(***************************************************************************)
(* Attack orders at a distance: the same infantry, some of them ordered to *)
(* attack from where they stand, with the enemy within attack range or     *)
(* beyond it and within aggro range.                                       *)
(***************************************************************************)
ReachNext == CarrySpawns \/ SkirmishOrders \/ CarryFrames

ReachSpec == ManagerInit /\ [][ReachNext]_vars

(***************************************************************************)
(* Mech (pkg/mech) and combat System (pkg/combat).  The mech stands or     *)
(* hovers over the lane: Position is its Z coordinate and Height its Y     *)
(* coordinate, in half world units; its health is in health points.  The   *)
(* timers of the System are in twelfths of a second.  The mech does not    *)
(* fire, so that no projectile is in flight; explosions are effects only.  *)
(***************************************************************************)
ModeJet == "Jet"
ModeRobot == "Robot"

MechDefaultConfig == [MaxHealth |-> 100]

MechNew(pos, cfg) ==
    [Position |-> pos.Z, Height |-> pos.Y, Mode |-> ModeJet,
     Health |-> cfg.MaxHealth, MaxHealth |-> cfg.MaxHealth]

MechTakeDamage(m, amount) ==
    LET left == m.Health - amount
    IN  [m EXCEPT !.Health = IF left < 0 THEN 0 ELSE left]

MechIsDead(m) == m.Health <= 0

CombatDefaultConfig == [MechRespawnDelay |-> 36, MechSpawnInvuln |-> 24]

NewSystem(cfg) ==
    [Config |-> cfg, mechDead |-> FALSE, respawnTimer |-> 0, invulnTimer |-> 0,
     respawnPosition |-> [Y |-> 0, Z |-> 0]]

SetRespawnPosition(sys, pos) == [sys EXCEPT !.respawnPosition = pos]

onMechDeath(sys) ==
    [sys EXCEPT !.mechDead = TRUE, !.respawnTimer = sys.Config.MechRespawnDelay]

respawnMech_vulnerable(sys, m) ==
    [sys |-> [sys EXCEPT !.mechDead = FALSE],
     mech |-> [m EXCEPT !.Position = sys.respawnPosition.Z,
                        !.Height = sys.respawnPosition.Y,
                        !.Health = m.MaxHealth,
                        !.Mode = ModeJet]]

\* respawnMech and updateMechRespawn: the System and the mech after the call.
respawnMech(sys, m) ==
    [sys |-> [sys EXCEPT !.mechDead = FALSE, !.invulnTimer = sys.Config.MechSpawnInvuln],
     mech |-> [m EXCEPT !.Position = sys.respawnPosition.Z,
                        !.Height = sys.respawnPosition.Y,
                        !.Health = m.MaxHealth,
                        !.Mode = ModeJet]]

updateMechRespawn(sys, m, dt) ==
    LET timed == IF sys.invulnTimer > 0 THEN [sys EXCEPT !.invulnTimer = @ - dt] ELSE sys
        waited == [timed EXCEPT !.respawnTimer = @ - dt]
    IN  IF ~timed.mechDead THEN [sys |-> timed, mech |-> m]
        ELSE IF waited.respawnTimer <= 0 THEN respawnMech(waited, m)
        ELSE [sys |-> waited, mech |-> m]

\* Manager.GetEnemiesInRadius; radius in tenths of a world unit.
GetEnemiesInRadius(h, ids, center, radius, myTeam) ==
    SelectSeq(ids, LAMBDA id : /\ ~IsDead(h[id])
                               /\ h[id].Team # myTeam
                               /\ 5 * Abs(center - h[id].Position) <= radius)

\* distance3D(enemy.Position, playerMech.Position) <= enemy.Config.AttackRange,
\* on the squares.
MechInRange(u, m) ==
    25 * ((m.Position - u.Position) ^ 2 + m.Height ^ 2) <= Config(u).AttackRange ^ 2

\* checkUnitMechCollisions from enemies[i] on; w is [sys, mech, h], the System,
\* the mech and the store of units.
RECURSIVE checkUnitMechCollisions_ignoresCooldown(_, _, _)
checkUnitMechCollisions_ignoresCooldown(w, enemies, i) ==
    IF i > Len(enemies) THEN w
    ELSE LET u == w.h[enemies[i]]
             isAir == w.mech.Mode = ModeJet
             hit == MechTakeDamage(w.mech, Config(u).AttackDamage)
             struck == [w EXCEPT !.mech = hit,
                                 !.h[enemies[i]].AttackCooldown = AttackPeriod(u)]
         IN  IF \/ IsDead(u)
                \/ isAir /\ ~Config(u).CanAttackAir
                \/ ~isAir /\ ~Config(u).CanAttackGround
                \/ ~MechInRange(u, w.mech)
             THEN checkUnitMechCollisions_ignoresCooldown(w, enemies, i + 1)
             ELSE IF MechIsDead(hit)
             THEN [struck EXCEPT !.sys = onMechDeath(@)]
             ELSE checkUnitMechCollisions_ignoresCooldown(struck, enemies, i + 1)

RECURSIVE checkUnitMechCollisions(_, _, _)
checkUnitMechCollisions(w, enemies, i) ==
    IF i > Len(enemies) THEN w
    ELSE LET u == w.h[enemies[i]]
             isAir == w.mech.Mode = ModeJet
             hit == MechTakeDamage(w.mech, Config(u).AttackDamage)
             struck == [w EXCEPT !.mech = hit,
                                 !.h[enemies[i]].AttackCooldown = AttackPeriod(u)]
         IN  IF \/ IsDead(u)
                \/ isAir /\ ~Config(u).CanAttackAir
                \/ ~isAir /\ ~Config(u).CanAttackGround
                \/ ~MechInRange(u, w.mech)
                \/ u.AttackCooldown > 0
             THEN checkUnitMechCollisions(w, enemies, i + 1)
             ELSE IF MechIsDead(hit)
             THEN [struck EXCEPT !.sys = onMechDeath(@)]
             ELSE checkUnitMechCollisions(struck, enemies, i + 1)

\* System.Update.
SystemUpdate(sys, m, h, ids, dt) ==
    LET r == updateMechRespawn(sys, m, dt)
        w == [sys |-> r.sys, mech |-> r.mech, h |-> h]
    IN  IF MechIsDead(r.mech) \/ r.sys.invulnTimer > 0 THEN w
        ELSE checkUnitMechCollisions(
                 w, GetEnemiesInRadius(h, ids, r.mech.Position, 100, TeamPlayer), 1)

(***************************************************************************)
(* A battle around the mech: the frames of Game.Update, each the unit      *)
(* manager's Update followed by the combat System's, with units spawned    *)
(* between frames.  The mech is where the player has brought it, hovering  *)
(* in jet mode or standing in robot mode over the player's second site;    *)
(* it respawns hovering there.  shots records, for each unit of the        *)
(* collection:                                                             *)
(*   fired   whether it applied damage in the last frame                   *)
(*   rested  the dt of its Update calls since it last applied damage,      *)
(*           counted up to its attack period; Unfired before the first     *)
(*   gap     the dt of its Update calls between its last two applications  *)
(*           of damage, counted likewise; Unfired before the second        *)
(*   period  its attack period, 1 / AttackRate                             *)
(***************************************************************************)
Unfired == -1

MechSite == [Y |-> 0, Z |-> GridToWorld(Lane, 0, 1).Y]

StartPos == [MechSite EXCEPT !.Y = 6]

BattleSites ==
    {[type |-> TypeInfantry, team |-> TeamPlayer, pos |-> GridToWorld(Lane, 0, 1).Y],
     [type |-> TypeInfantry, team |-> TeamEnemy, pos |-> GridToWorld(Lane, 0, 2).Y],
     [type |-> TypeSAM, team |-> TeamEnemy, pos |-> GridToWorld(Lane, 0, 2).Y]}

BattleInit ==
    /\ units = NewManager.units
    /\ store = NewManager.store
    /\ nextID = NewManager.nextID
    /\ ret = [op |-> "NewManager", u |-> Nil]
    /\ \E landed \in BOOLEAN :
           playerMech = IF landed
                        THEN [MechNew(MechSite, MechDefaultConfig) EXCEPT !.Mode = ModeRobot]
                        ELSE MechNew(StartPos, MechDefaultConfig)
    /\ combat = SetRespawnPosition(NewSystem(CombatDefaultConfig), StartPos)
    /\ shots = <<>>
    /\ NoPathfinder
    /\ NoBase
    /\ NoUnit
    /\ NoBaseManager

BattleSpawns ==
    \E site \in BattleSites :
        /\ nextID <= MaxID
        /\ LET r == Spawn(manager, MaxUnits, site.type, site.team, site.pos)
           IN  /\ units' = r.m.units
               /\ store' = r.m.store
               /\ nextID' = r.m.nextID
               /\ ret' = [op |-> "Spawn", u |-> r.u]
        /\ UNCHANGED <<playerMech, combat, shots, outsideBattle>>

\* What the frame that leaves the store after adds to the record of the unit
\* id: a unit that applied damage has its cooldown back at its period.
Shot(id, after, dt) ==
    LET period == AttackPeriod(store[id])
        last == IF id \in DOMAIN shots
                THEN shots[id]
                ELSE [period |-> period, fired |-> FALSE, rested |-> Unfired, gap |-> Unfired]
        rested == IF last.rested = Unfired THEN Unfired
                  ELSE Min2(last.rested + dt, period)
    IN  IF after[id].AttackCooldown = period /\ store[id].AttackCooldown - dt < period
        THEN [last EXCEPT !.fired = TRUE, !.rested = 0, !.gap = rested]
        ELSE [last EXCEPT !.fired = FALSE, !.rested = rested]

\* The state after a frame in which the manager became m and the combat system
\* left the world r.
Settled(m, r, dt) ==
    /\ units' = m.units
    /\ store' = r.h
    /\ nextID' = m.nextID
    /\ ret' = [op |-> "Update", u |-> Nil]
    /\ playerMech' = r.mech
    /\ combat' = r.sys
    /\ shots' = [id \in {m.units[i] : i \in 1 .. Len(m.units)} |-> Shot(id, r.h, dt)]
    /\ UNCHANGED outsideBattle

\* combatSystem.Update(dt) on the manager m that unitManager.Update(dt) left.
Fought(m, dt) == Settled(m, SystemUpdate(combat, playerMech, m.store, m.units, dt), dt)

\* One frame of Game.Update: unitManager.Update(dt), combatSystem.Update(dt).
BattleFrame(dt) == Fought(ManagerUpdate(manager, dt), dt)

BattleFrames == BattleFrame(FrameDt)

BattleNext == BattleSpawns \/ BattleFrames

BattleSpec == BattleInit /\ [][BattleNext]_vars

(***************************************************************************)
(* The same battle with frames of two lengths and a clock beside it.  tick *)
(* records:                                                                *)
(*   dt     the dt of the last frame                                       *)
(*   died   the dt of the frames since the one that killed the mech, while *)
(*          the mech is dead                                               *)
(*   risen  whether the mech has respawned and not died since             *)
(*   rose   the dt of the frames since the one that respawned the mech,    *)
(*          counted up to MechSpawnInvuln                                  *)
(***************************************************************************)
RespawnDts == {FrameDt, 12}

RespawnInit ==
    /\ units = NewManager.units
    /\ store = NewManager.store
    /\ nextID = NewManager.nextID
    /\ ret = [op |-> "NewManager", u |-> Nil]
    /\ playerMech = MechNew(StartPos, MechDefaultConfig)
    /\ combat = SetRespawnPosition(NewSystem(CombatDefaultConfig), StartPos)
    /\ shots = <<>>
    /\ tick = [dt |-> 0, died |-> 0, risen |-> FALSE, rose |-> 0]
    /\ base = Absent
    /\ NoPathfinder
    /\ NoUnit
    /\ NoBaseManager

RespawnSpawns ==
    /\ nextID <= MaxID
    /\ \E site \in BattleSites :
           /\ units' = Spawn(manager, MaxUnits, site.type, site.team, site.pos).m.units
           /\ store' = Spawn(manager, MaxUnits, site.type, site.team, site.pos).m.store
           /\ nextID' = Spawn(manager, MaxUnits, site.type, site.team, site.pos).m.nextID
           /\ ret' = [op |-> "Spawn", u |-> Spawn(manager, MaxUnits, site.type, site.team, site.pos).u]
    /\ UNCHANGED <<playerMech, combat, shots, width, height, blocked, fp, base, tick,
                   unit, did, bm, bmRet>>

Clock(after, dt) ==
    [dt |-> dt,
     died |-> IF MechIsDead(playerMech) /\ MechIsDead(after) THEN tick.died + dt ELSE 0,
     risen |-> IF MechIsDead(after) THEN FALSE
               ELSE MechIsDead(playerMech) \/ tick.risen,
     rose |-> IF MechIsDead(after) \/ MechIsDead(playerMech) \/ ~tick.risen THEN 0
              ELSE Min2(tick.rose + dt, combat.Config.MechSpawnInvuln)]

Clocked(m, r, dt) ==
    /\ units' = m.units
    /\ store' = r.h
    /\ nextID' = m.nextID
    /\ ret' = [op |-> "Update", u |-> Nil]
    /\ playerMech' = r.mech
    /\ combat' = r.sys
    /\ tick' = Clock(r.mech, dt)
    /\ UNCHANGED <<shots, width, height, blocked, fp, base, unit, did, bm, bmRet>>

Timed(m, dt) == Clocked(m, SystemUpdate(combat, playerMech, m.store, m.units, dt), dt)

RespawnFrames == \E dt \in RespawnDts : Timed(ManagerUpdate(manager, dt), dt)

RespawnNext == RespawnSpawns \/ RespawnFrames

RespawnSpec == RespawnInit /\ [][RespawnNext]_vars

(***************************************************************************)
(* A unit taking damage and being healed.                                  *)
(***************************************************************************)
UnitInit ==
    /\ \E t \in UnitTypes : unit = New(1, t, TeamPlayer, 0)
    /\ did = "New"
    /\ NoPathfinder
    /\ NoBase
    /\ NoManager
    /\ NoBaseManager
    /\ NoCombat

DoTakeDamage(amount) ==
    /\ unit' = TakeDamage(unit, amount)
    /\ did' = "TakeDamage"
    /\ UNCHANGED outsideUnit

DoHeal(amount) ==
    /\ unit' = Heal(unit, amount)
    /\ did' = "Heal"
    /\ UNCHANGED outsideUnit

UnitTakesDamage == \E amount \in 0 .. MaxAmount : DoTakeDamage(amount)

UnitHeals == \E amount \in 0 .. MaxAmount : DoHeal(amount)

UnitNext == UnitTakesDamage \/ UnitHeals

UnitSpec == UnitInit /\ [][UnitNext]_vars

(***************************************************************************)
(* The life of one infantry unit outside any manager: it is damaged and    *)
(* healed by the largest amount, picked up and dropped by a transport,     *)
(* given orders, objectives and one-waypoint paths at the two ends of a    *)
(* stretch of the lane, and updated every frame.  A patrolling unit        *)
(* wanders to random points off the lane: its frames are left out.         *)
(***************************************************************************)
Stretch == {0, 2 * MaxStretch}

LifeOrders == {OrderNone, OrderAttackNearest, OrderDefendPosition, OrderPatrolArea}

LifeInit ==
    /\ unit = New(1, TypeInfantry, TeamPlayer, 0)
    /\ did = "New"
    /\ NoPathfinder
    /\ NoBase
    /\ NoManager
    /\ NoBaseManager
    /\ NoCombat

Done(u, op) ==
    /\ unit' = u
    /\ did' = op
    /\ UNCHANGED outsideUnit

DoUnitUpdate(dt) ==
    /\ unit.Order # OrderPatrolArea
    /\ Done(Update(unit.ID :> unit, unit.ID, dt)[unit.ID], "Update")

DoPickUp == Done(PickUp(unit), "PickUp")

DoDrop == \E pos \in Stretch, order \in LifeOrders : Done(Drop(unit, pos, order), "Drop")

DoSetOrder ==
    \E order \in LifeOrders, pos \in Stretch : Done(SetOrder(unit, order, pos), "SetOrder")

DoSetObjective == \E pos \in Stretch : Done(SetObjective(unit, pos), "SetObjective")

DoSetPath == \E pos \in Stretch : Done(SetPath(unit, <<[X |-> 0, Y |-> pos]>>), "SetPath")

LifeNext ==
    \/ DoTakeDamage(MaxAmount)
    \/ DoHeal(MaxAmount)
    \/ DoUnitUpdate(FrameDt)
    \/ DoPickUp
    \/ DoDrop
    \/ DoSetOrder
    \/ DoSetObjective
    \/ DoSetPath

LifeSpec == LifeInit /\ [][LifeNext]_vars

(***************************************************************************)
(* A unit on guard: a unit of any type, created somewhere on a stretch of  *)
(* the lane, is ordered to defend one of its ends and is then updated      *)
(* every frame, for ever.  Frames are a quarter of a second or a second    *)
(* long; a frame is taken only when the unit's step Speed * dt is a whole  *)
(* number of half world units, so that its position stays exact.           *)
(***************************************************************************)
GuardDts == {FrameDt, 12}

GuardInit ==
    /\ \E t \in UnitTypes, pos \in 0 .. MaxPost : unit = New(1, t, TeamPlayer, pos)
    /\ did = "New"
    /\ NoPathfinder
    /\ NoBase
    /\ NoManager
    /\ NoBaseManager
    /\ NoCombat

GuardOrders ==
    /\ unit.Order = OrderNone
    /\ \E pos \in {0, MaxPost} : Done(SetOrder(unit, OrderDefendPosition, pos), "SetOrder")

GuardFrames ==
    /\ unit.Order = OrderDefendPosition
    /\ \E dt \in GuardDts :
           /\ (Config(unit).Speed * dt) % 60 = 0
           /\ Done(Update(unit.ID :> unit, unit.ID, dt)[unit.ID], "Update")

GuardNext == GuardOrders \/ GuardFrames

GuardSpec == GuardInit /\ [][GuardNext]_vars /\ WF_vars(GuardOrders) /\ WF_vars(GuardFrames)

(***************************************************************************)
(* A march: an infantry unit without order is given one objective at a time, bare or *)
(* with a one-waypoint path, at either end of the stretch, and is updated  *)
(* again and again.                                                        *)
(***************************************************************************)
MarchInit ==
    /\ \E pos \in 0 .. MaxPost : unit = New(1, TypeInfantry, TeamPlayer, pos)
    /\ did = "New"
    /\ NoPathfinder
    /\ NoBase
    /\ NoManager
    /\ NoBaseManager
    /\ NoCombat

MarchObjectives ==
    /\ unit.Order = OrderNone
    /\ ~unit.HasObjective
    /\ \E pos \in {0, MaxPost} :
           \/ Done(SetObjective(unit, pos), "SetObjective")
           \/ Done(SetPath(SetObjective(unit, pos), <<[X |-> 0, Y |-> pos]>>), "SetPath")

MarchFrames ==
    /\ unit.Order = OrderNone
    /\ \E dt \in GuardDts : /\ (Config(unit).Speed * dt) % 60 = 0
                           /\ Done(Update(unit.ID :> unit, unit.ID, dt)[unit.ID], "Update")

MarchNext == MarchObjectives \/ MarchFrames

MarchSpec == MarchInit /\ [][MarchNext]_vars /\ WF_vars(MarchFrames)

(***************************************************************************)
(* Base: spawn queue, damage, income (base.go), on the Base records of a   *)
(* manager.  The spawn cooldown, like dt, is in eighths of a second.       *)
(***************************************************************************)
QueueUnit(b, unitType) ==
    IF b.Owner = OwnerNeutral THEN b
    ELSE [b EXCEPT !.SpawnQueue = Append(@, unitType)]

\* Base.TrySpawn: the base after the call, the unit type returned (the zero
\* UnitType when nothing spawned) and whether a spawn occurred.
TrySpawn_ignoresCooldown(b, cfg) ==
    IF Len(b.SpawnQueue) = 0
    THEN [b |-> b, unitType |-> TypeInfantry, spawned |-> FALSE]
    ELSE [b |-> [b EXCEPT !.SpawnQueue = Tail(@),
                          !.SpawnCooldown = 8 * cfg.SpawnCooldown],
          unitType |-> Head(b.SpawnQueue), spawned |-> TRUE]

TrySpawn(b, cfg) ==
    IF Len(b.SpawnQueue) = 0
    THEN [b |-> b, unitType |-> TypeInfantry, spawned |-> FALSE]
    ELSE IF b.SpawnCooldown > 0
    THEN [b |-> b, unitType |-> TypeInfantry, spawned |-> FALSE]
    ELSE [b |-> [b EXCEPT !.SpawnQueue = Tail(@),
                          !.SpawnCooldown = 8 * cfg.SpawnCooldown],
          unitType |-> Head(b.SpawnQueue), spawned |-> TRUE]

\* Base.CollectIncome: the base after the call and the income returned.
BaseCollectIncome(b) ==
    [b |-> [b EXCEPT !.AccumulatedIncome = 0], income |-> b.AccumulatedIncome]

\* Base.TakeDamage; amount in health points.
BaseTakeDamage(b, amount) ==
    LET left == b.Health - amount
    IN  [b EXCEPT !.Health = IF left < 0 THEN 0 ELSE left]

IsDestroyed(b) == b.Health <= 0

(***************************************************************************)
(* Base manager (pkg/base/manager.go, purchase.go).  A manager is          *)
(* [Config, Bases, nextID, Player1, Player2]: Bases is the slice of Base   *)
(* records, each with its ID; Player1 and Player2 are the credits of the   *)
(* two players, in eighths of a credit (income is rate * dt, dt in eighths *)
(* of a second).                                                           *)
(***************************************************************************)
BaseNewManager(cfg) ==
    [Config |-> cfg, Bases |-> <<>>, nextID |-> 1,
     Player1 |-> 8 * 500, Player2 |-> 8 * 500]

AddBase(m, baseType, owner) ==
    [m EXCEPT !.Bases = Append(@, [ID |-> m.nextID] @@ NewBase(baseType, owner, m.Config)),
              !.nextID = @ + 1]

\* Manager.GetBase: the index in Bases of the first base with this ID, 0 for
\* nil.
GetBase(m, id) ==
    LET found == {i \in 1 .. Len(m.Bases) : m.Bases[i].ID = id}
    IN  IF found = {} THEN 0 ELSE CHOOSE i \in found : \A j \in found : i <= j

\* Manager.GetHQ, as an index in Bases, 0 for nil.
GetHQ_countsDestroyed(m, owner) ==
    LET found == {i \in 1 .. Len(m.Bases) :
                      m.Bases[i].Type = TypeHQ /\ m.Bases[i].Owner = owner}
    IN  IF found = {} THEN 0 ELSE CHOOSE i \in found : \A j \in found : i <= j

GetHQ(m, owner) ==
    LET found == {i \in 1 .. Len(m.Bases) :
                      /\ m.Bases[i].Type = TypeHQ
                      /\ m.Bases[i].Owner = owner
                      /\ ~IsDestroyed(m.Bases[i])}
    IN  IF found = {} THEN 0 ELSE CHOOSE i \in found : \A j \in found : i <= j

IsGameOver(m) ==
    IF GetHQ(m, OwnerPlayer1) = 0 THEN OwnerPlayer1
    ELSE IF GetHQ(m, OwnerPlayer2) = 0 THEN OwnerPlayer2
    ELSE OwnerNeutral

\* Manager.SpendCredits: the manager after the call and the value returned;
\* amount in eighths of a credit.
SpendCredits_overdraws(m, owner, amount) ==
    CASE owner = OwnerPlayer1 -> [m |-> [m EXCEPT !.Player1 = @ - amount], ok |-> TRUE]
      [] owner = OwnerPlayer2 -> [m |-> [m EXCEPT !.Player2 = @ - amount], ok |-> TRUE]
      [] OTHER -> [m |-> m, ok |-> FALSE]

SpendCredits(m, owner, amount) ==
    CASE owner = OwnerPlayer1 ->
           IF m.Player1 >= amount
           THEN [m |-> [m EXCEPT !.Player1 = @ - amount], ok |-> TRUE]
           ELSE [m |-> m, ok |-> FALSE]
      [] owner = OwnerPlayer2 ->
           IF m.Player2 >= amount
           THEN [m |-> [m EXCEPT !.Player2 = @ - amount], ok |-> TRUE]
           ELSE [m |-> m, ok |-> FALSE]
      [] OTHER -> [m |-> m, ok |-> FALSE]

GetCredits(m, owner) ==
    CASE owner = OwnerPlayer1 -> m.Player1
      [] owner = OwnerPlayer2 -> m.Player2
      [] OTHER -> 0

\* UnitCost, in eighths of a credit.
UnitCost(unitType) == 8 * GetConfig(unitType).Cost

\* Manager.TryPurchaseUnit: the manager after the call and the value returned.
TryPurchaseUnit(m, baseID, unitType, owner) ==
    LET i == GetBase(m, baseID)
    IN  IF i = 0 THEN [m |-> m, ok |-> FALSE]
        ELSE IF m.Bases[i].Owner # owner THEN [m |-> m, ok |-> FALSE]
        ELSE LET spent == SpendCredits(m, owner, UnitCost(unitType))
             IN  IF ~spent.ok THEN [m |-> m, ok |-> FALSE]
                 ELSE [m |-> [spent.m EXCEPT !.Bases[i] = QueueUnit(@, unitType)],
                       ok |-> TRUE]

\* Manager.Update, from the base at index i on: each base is updated, its
\* income collected and paid to the owner it has by then.
RECURSIVE updateBases(_, _, _)
updateBases(m, i, dt) ==
    IF i > Len(m.Bases) THEN m
    ELSE LET c == BaseCollectIncome(BaseUpdate(m.Bases[i], dt, m.Config))
             paid == CASE c.b.Owner = OwnerPlayer1 -> [m EXCEPT !.Player1 = @ + c.income]
                       [] c.b.Owner = OwnerPlayer2 -> [m EXCEPT !.Player2 = @ + c.income]
                       [] OTHER -> m
         IN  updateBases([paid EXCEPT !.Bases[i] = c.b], i + 1, dt)

BaseManagerUpdate(m, dt) == updateBases(m, 1, dt)

(***************************************************************************)
(* The base manager as a state machine: the game of main.go on a map of    *)
(* two HQs and one outpost.  Every frame updates the manager; between      *)
(* frames players purchase units, bases try to spawn, infantry enter or    *)
(* leave the outpost, bases take damage and the game asks whether it is    *)
(* over.  bmRet records the last operation for the claims:                 *)
(*   op     its name                                                       *)
(*   at     the index of the base it was about, 0 for none                 *)
(*   out    what it returned; for a purchase also what was asked for       *)
(*   now    the game time elapsed, in eighths of a second                  *)
(*   since  per base, the Update time elapsed since its last successful    *)
(*          TrySpawn, in eighths, counted up to the spawn cooldown; Never  *)
(*          Spawned for a base that has not spawned yet                    *)
(*   bought the purchases that succeeded                                   *)
(***************************************************************************)
NeverSpawned == 8 * DefaultConfig.SpawnCooldown + 1

\* The first bases of CreateDefaultMap, and an outpost of either kind.
DefaultMap(outpostOwner) ==
    AddBase(AddBase(AddBase(BaseNewManager(DefaultConfig),
                            TypeHQ, OwnerPlayer1),
                    TypeHQ, OwnerPlayer2),
            TypeOutpost, outpostOwner)

PurchaseTypes == {TypeInfantry, TypeTank}

\* Who purchases: the player of main.go, and no player at all.
Purchasers == {OwnerPlayer1, OwnerNeutral}

BaseManagerInit ==
    /\ \E o \in Owners : bm = DefaultMap(o)
    /\ bmRet = [op |-> "CreateDefaultMap", at |-> 0, out |-> TRUE, now |-> 0,
                since |-> [i \in 1 .. MaxBases |-> NeverSpawned], bought |-> 0]
    /\ NoPathfinder
    /\ NoBase
    /\ NoUnit
    /\ NoManager
    /\ NoCombat

Did(op, at, out) == [bmRet EXCEPT !.op = op, !.at = at, !.out = out]

Elapsed(since, dt) ==
    [i \in DOMAIN since |->
        IF since[i] = NeverSpawned THEN NeverSpawned
        ELSE Min2(since[i] + dt, 8 * DefaultConfig.SpawnCooldown)]

DoBaseManagerUpdate(dt) ==
    /\ bmRet.now + dt <= MaxGameTime
    /\ bm' = BaseManagerUpdate(bm, dt)
    /\ bmRet' = [Did("Update", 0, dt) EXCEPT !.now = @ + dt,
                                             !.since = Elapsed(@, dt)]
    /\ UNCHANGED outsideBaseManager

DoTryPurchaseUnit(baseID, unitType, owner) ==
    LET r == TryPurchaseUnit(bm, baseID, unitType, owner)
    IN  /\ r.ok => bmRet.bought < MaxPurchases
        /\ bm' = r.m
        /\ bmRet' = [Did("TryPurchaseUnit", GetBase(bm, baseID),
                         [ok |-> r.ok, baseID |-> baseID, unitType |-> unitType,
                          owner |-> owner])
                        EXCEPT !.bought = IF r.ok THEN @ + 1 ELSE @]
        /\ UNCHANGED outsideBaseManager

DoTrySpawn(i) ==
    LET r == TrySpawn(bm.Bases[i], bm.Config)
    IN  /\ bm' = [bm EXCEPT !.Bases[i] = r.b]
        /\ bmRet' = [Did("TrySpawn", i,
                         [spawned |-> r.spawned, unitType |-> r.unitType,
                          waited |-> bmRet.since[i]])
                        EXCEPT !.since[i] = IF r.spawned THEN 0 ELSE @]
        /\ UNCHANGED outsideBaseManager

DoOccupy(i, count, owner) ==
    /\ bm.Bases[i].Type = TypeOutpost
    /\ bm' = [bm EXCEPT !.Bases[i].OccupyingInfantry = count,
                        !.Bases[i].OccupyingOwner = owner]
    /\ bmRet' = Did("SetOccupyingInfantry", i, TRUE)
    /\ UNCHANGED outsideBaseManager

DoBaseTakeDamage(i, amount) ==
    /\ bm' = [bm EXCEPT !.Bases[i] = BaseTakeDamage(@, amount)]
    /\ bmRet' = Did("TakeDamage", i, TRUE)
    /\ UNCHANGED outsideBaseManager

DoIsGameOver ==
    /\ bmRet' = Did("IsGameOver", 0, IsGameOver(bm))
    /\ UNCHANGED <<bm, outsideBaseManager>>

GameFrames == \E dt \in 1 .. MaxDt : DoBaseManagerUpdate(dt)

GamePurchases ==
    \E baseID \in 1 .. MaxBases + 1, unitType \in PurchaseTypes, owner \in Purchasers :
        DoTryPurchaseUnit(baseID, unitType, owner)

GameSpawns == \E i \in 1 .. Len(bm.Bases) : DoTrySpawn(i)

GameOccupies ==
    \E i \in 1 .. Len(bm.Bases) :
        \/ DoOccupy(i, 0, OwnerNeutral)
        \/ \E owner \in {OwnerPlayer1, OwnerPlayer2} : DoOccupy(i, MaxInfantry, owner)

GameDamages ==
    \E i \in 1 .. Len(bm.Bases) :
        bm.Bases[i].Type = TypeHQ /\ DoBaseTakeDamage(i, bm.Bases[i].Health)

\* The war: frames, captures of the outpost, damage to the bases.
BaseManagerNext ==
    \/ GameFrames
    \/ GameOccupies
    \/ GameDamages
    \/ DoIsGameOver

BaseManagerSpec == BaseManagerInit /\ [][BaseManagerNext]_vars

\* The economy: frames, purchases, spawns.
EconomyFrames == DoBaseManagerUpdate(MaxDt)

EconomyNext ==
    \/ EconomyFrames
    \/ GamePurchases
    \/ GameSpawns

EconomySpec == BaseManagerInit /\ [][EconomyNext]_vars

\* The treasury: frames, purchases, and credits spent directly.
SpendAmounts == {0, UnitCost(TypeInfantry) + UnitCost(TypeInfantry) \div 2, UnitCost(TypeTank)}

DoSpendCredits(owner, amount) ==
    /\ bm' = SpendCredits(bm, owner, amount).m
    /\ bmRet' = Did("SpendCredits", 0,
                    [ok |-> SpendCredits(bm, owner, amount).ok, owner |-> owner,
                     amount |-> amount])
    /\ UNCHANGED outsideBaseManager

TreasurySpends == \E owner \in Owners, amount \in SpendAmounts : DoSpendCredits(owner, amount)

TreasuryNext ==
    \/ EconomyFrames
    \/ GamePurchases
    \/ TreasurySpends

TreasurySpec == BaseManagerInit /\ [][TreasuryNext]_vars

(***************************************************************************)
(* The game loop over the bases and the army: a frame updates the units,   *)
(* then the bases, then spawns what the bases release.                     *)
(***************************************************************************)
outsideGame == <<fp, base, tick, unit, did, playerMech, combat, shots>>

ArmyPurchases == MaxUnits + 1
ArmyTime == 24      \* game time of the loop, in eighths of a second

\* Z of a base's spawn point, in half world units.
SpawnPoint(i) == 2 * <<-15, 15, 0>>[i] + 4

TeamOf(owner) == IF owner = OwnerPlayer1 THEN TeamPlayer ELSE TeamEnemy

RECURSIVE processBaseSpawns(_, _, _)
processBaseSpawns(g, i, maxUnits) ==
    IF i > Len(g.bm.Bases) THEN g
    ELSE LET r == TrySpawn(g.bm.Bases[i], g.bm.Config)
             released == [g EXCEPT !.bm.Bases[i] = r.b]
         IN  IF ~r.spawned THEN processBaseSpawns(g, i + 1, maxUnits)
             ELSE IF r.b.Owner \notin {OwnerPlayer1, OwnerPlayer2}
             THEN processBaseSpawns(released, i + 1, maxUnits)
             ELSE processBaseSpawns(
                      [released EXCEPT !.um = Spawn(@, maxUnits, r.unitType,
                                                    TeamOf(r.b.Owner), SpawnPoint(i)).m],
                      i + 1, maxUnits)

GameUpdate(g, dt8, dt12, maxUnits) ==
    processBaseSpawns([bm |-> BaseManagerUpdate(g.bm, dt8),
                       um |-> ManagerUpdate(g.um, dt12)], 1, maxUnits)

\* Who paid for each entry of each spawn queue, kept beside the queues.
Released(paid, before, after) ==
    [i \in DOMAIN paid |->
        IF Len(after.Bases[i].SpawnQueue) < Len(before.Bases[i].SpawnQueue)
        THEN Tail(paid[i]) ELSE paid[i]]

ArmyInit ==
    /\ bm = DefaultMap(OwnerPlayer1)
    /\ bmRet = [op |-> "CreateDefaultMap", now |-> 0, bought |-> 0,
                paid |-> [i \in 1 .. MaxBases |-> <<>>]]
    /\ units = NewManager.units
    /\ store = NewManager.store
    /\ nextID = NewManager.nextID
    /\ ret = [op |-> "NewManager", u |-> Nil]
    /\ width = Lane.width
    /\ height = Lane.height
    /\ blocked = Lane.blocked
    /\ fp = Absent
    /\ NoBase
    /\ NoUnit
    /\ NoCombat

Looped(g, dt) ==
    /\ bm' = g.bm
    /\ units' = g.um.units
    /\ store' = g.um.store
    /\ nextID' = g.um.nextID
    /\ ret' = [op |-> "Update", u |-> Nil]
    /\ bmRet' = [bmRet EXCEPT !.op = "Update", !.now = @ + dt,
                              !.paid = Released(@, BaseManagerUpdate(bm, dt), g.bm)]
    /\ UNCHANGED <<width, height, blocked, outsideGame>>

ArmyFrames ==
    /\ bmRet.now + MaxDt <= ArmyTime
    /\ Looped(GameUpdate([bm |-> bm, um |-> manager], MaxDt, FrameDt, MaxUnits), MaxDt)

Purchased(r, i, owner) ==
    /\ r.ok
    /\ bm' = r.m
    /\ bmRet' = [bmRet EXCEPT !.op = "TryPurchaseUnit", !.bought = @ + 1,
                              !.paid[i] = Append(@, owner)]
    /\ UNCHANGED <<width, height, blocked, units, store, nextID, ret, outsideGame>>

ArmyPurchasesUnit ==
    /\ bmRet.bought < ArmyPurchases
    /\ \E i \in {1, MaxBases}, unitType \in PurchaseTypes, owner \in {OwnerPlayer1, OwnerPlayer2} :
           Purchased(TryPurchaseUnit(bm, bm.Bases[i].ID, unitType, owner), i, owner)

ArmyOccupies ==
    /\ bm.Bases[MaxBases].OccupyingInfantry = 0
    /\ bm' = [bm EXCEPT !.Bases[MaxBases].OccupyingInfantry = MaxInfantry,
                        !.Bases[MaxBases].OccupyingOwner = OwnerPlayer2]
    /\ bmRet' = [bmRet EXCEPT !.op = "SetOccupyingInfantry"]
    /\ UNCHANGED <<width, height, blocked, units, store, nextID, ret, outsideGame>>

ArmyNext == ArmyFrames \/ ArmyPurchasesUnit \/ ArmyOccupies

ArmySpec == ArmyInit /\ [][ArmyNext]_vars

(***************************************************************************)
(* What the claims about the pathfinder are stated in: the legal routes of *)
(* the grid, written from the cost model and not from the search.          *)
(***************************************************************************)
Cells == {<<x, y>> : x \in 0 .. (width - 1), y \in 0 .. (height - 1)}

InGrid(c) == c[1] >= 0 /\ c[1] < width /\ c[2] >= 0 /\ c[2] < height

Free(c) == InGrid(c) /\ ~blocked[c[2] * width + c[1]]

\* One legal move of the 8-connected cost model, and its cost in hundredths.
LegalStep(a, b) ==
    /\ Free(a) /\ Free(b) /\ a # b
    /\ Abs(a[1] - b[1]) <= 1 /\ Abs(a[2] - b[2]) <= 1
    /\ (a[1] # b[1] /\ a[2] # b[2]) => Free(<<b[1], a[2]>>) /\ Free(<<a[1], b[2]>>)

StepCost(a, b) == IF a[1] # b[1] /\ a[2] # b[2] THEN 141 ELSE 100

Unreached == 141 * width * height + 1

\* The cells one legal move away from cell c.
Around(c) ==
    {n \in {<<c[1] + dx, c[2] + dy>> : dx \in {-1, 0, 1}, dy \in {-1, 0, 1}} : LegalStep(n, c)}

\* Every legal move <<a, b>> of the grid.
LegalMoves == UNION {{<<a, c>> : a \in Around(c)} : c \in Cells}

Least(S) == CHOOSE m \in S : \A o \in S : m <= o

\* One round of Bellman-Ford over d, the least costs known so far.
Relaxed(moves, d) ==
    [c \in Cells |->
       Least({d[c]} \cup {d[m[1]] + StepCost(m[1], c) :
                            m \in {m \in moves : m[2] = c /\ d[m[1]] < Unreached}})]

\* Bellman-Ford to its fixed point: the least cost of a legal route from the
\* source to every cell (Unreached where there is none).
RECURSIVE LeastCosts(_, _)
LeastCosts(moves, d) ==
    Strict(LAMBDA d2 : IF d2 = d THEN d ELSE LeastCosts(moves, d2), Relaxed(moves, d))

MinCost(s, g) ==
    Strict(LAMBDA moves :
             LeastCosts(moves, [c \in Cells |-> IF c = s THEN 0 ELSE Unreached])[g],
           LegalMoves)

\* The call observed in fp, in cells.
Cell(r) == <<r.x, r.y>>
StartCell == Cell(WorldToGrid(pf, fp.start))
GoalCell == Cell(WorldToGrid(pf, fp.goal))
Route == [k \in 1 .. Len(fp.route) |-> Cell(fp.route[k])]

RECURSIVE SumCost(_, _)
SumCost(r, k) == IF k >= Len(r) THEN 0 ELSE StepCost(r[k], r[k + 1]) + SumCost(r, k + 1)
RouteCost == SumCost(Route, 1)

\* Centre of a cell in the model's half world units.
Centre(c) == [X |-> 2 * c[1] + 1 - width, Y |-> 2 * c[2] + 1 - height]

\* The route is a sequence of legal moves from the start cell to the goal cell.
RouteIsLegal ==
    /\ Len(Route) >= 1
    /\ Route[1] = StartCell
    /\ Route[Len(Route)] = GoalCell
    /\ \A k \in 1 .. (Len(Route) - 1) : LegalStep(Route[k], Route[k + 1])

\* C1: under any sequence of Spawn, SpawnWithObjective, Update and Clear the
\* manager never holds more than maxUnits units; and a Spawn (alone or inside
\* SpawnWithObjective) attempted while it holds maxUnits units returns no unit
\* and leaves the collection, its units and the next ID as they were.
C1_Refused ==
    /\ ret'.u = Nil
    /\ units' = units
    /\ store' = store
    /\ nextID' = nextID

C1_SpawnCap ==
    /\ [](Len(units) <= MaxUnits)
    /\ [][(Len(units) = MaxUnits /\ (ManagerSpawns \/ ManagerSpawnsWithObjective))
              => C1_Refused]_vars

\* The manager is full, with a unit spawned after an earlier one was lost, and
\* a Spawn has just been refused.
C1_Witness ==
    /\ ret.op = "Spawn"
    /\ ret.u = Nil
    /\ Len(units) = MaxUnits
    /\ nextID > MaxUnits + 1

\* C2: whenever the start and goal cells are free and connected, the route
\* FindPath computes before simplification is a legal route whose cost (100 per
\* cardinal step, 141 per diagonal step) is the least cost of any legal route
\* from the start cell to the goal cell.
C2_Optimal ==
    (fp.called /\ Free(StartCell) /\ Free(GoalCell))
        => Strict(LAMBDA least :
                    least < Unreached
                        => /\ fp.path # NoPath
                           /\ RouteIsLegal
                           /\ RouteCost = least,
                  MinCost(StartCell, GoalCell))

\* A found route that had to leave the straight octile line: it costs more than
\* the heuristic estimate of the unobstructed grid.
C2_Witness ==
    /\ fp.called /\ fp.path # NoPath
    /\ NumBlocked(blocked) >= 1
    /\ RouteCost > 100 * Max2(Abs(StartCell[1] - GoalCell[1]), Abs(StartCell[2] - GoalCell[2]))
                   + 41 * Min2(Abs(StartCell[1] - GoalCell[1]), Abs(StartCell[2] - GoalCell[2]))
    /\ RouteCost = MinCost(StartCell, GoalCell)

\* World extent of the grid, low edge included and high edge excluded.
InExtent(pos) ==
    /\ -width <= pos.X /\ pos.X < width
    /\ -height <= pos.Y /\ pos.Y < height

\* The cell a position inside the extent lies in.
CellOf(pos) == <<(pos.X + width) \div 2, (pos.Y + height) \div 2>>

BadEndpoint(pos) == ~InExtent(pos) \/ ~Free(CellOf(pos))

\* C3: FindPath returns no path whenever the start or the goal position lies
\* outside the grid's world extent, on any side and by any distance, or falls in
\* an occupied cell.
C3_NoPathForBadEndpoints ==
    (fp.called /\ (BadEndpoint(fp.start) \/ BadEndpoint(fp.goal))) => fp.path = NoPath

\* C4: when the free start cell and the free goal cell are not connected by any
\* legal route, the search runs its open set empty after finitely many pops (at
\* most one per relaxation, each cell being relaxed from at most 8 neighbours a
\* bounded number of times) and FindPath returns no path.
C4_DisconnectedNoPath ==
    (fp.called /\ Free(StartCell) /\ Free(GoalCell)
               /\ MinCost(StartCell, GoalCell) = Unreached)
        => /\ fp.path = NoPath
           /\ fp.route = <<>>
           /\ fp.pops >= 1
           /\ fp.pops <= 8 * Cardinality(Cells)

C4_Witness ==
    /\ fp.called /\ Free(StartCell) /\ Free(GoalCell)
    /\ MinCost(StartCell, GoalCell) = Unreached
    /\ fp.path = NoPath
    /\ fp.pops >= 2

\* C5: every diagonal step between consecutive cells of the route has both of
\* its flanking cardinal cells free (in bounds and unoccupied).
C5_NoCornerCutting ==
    fp.called =>
        \A k \in 1 .. (Len(Route) - 1) :
            LET a == Route[k]
                b == Route[k + 1]
            IN  /\ Abs(a[1] - b[1]) <= 1 /\ Abs(a[2] - b[2]) <= 1
                /\ (a[1] # b[1] /\ a[2] # b[2])
                      => Free(<<b[1], a[2]>>) /\ Free(<<a[1], b[2]>>)

\* A route that goes around a corner: two consecutive moves between cells that
\* are diagonal neighbours, one of whose flanking cells is occupied.
C5_Witness ==
    /\ fp.called
    /\ \E k \in 1 .. (Len(Route) - 2) :
          LET a == Route[k]
              c == Route[k + 2]
          IN  /\ Abs(a[1] - c[1]) = 1 /\ Abs(a[2] - c[2]) = 1
              /\ ~Free(<<c[1], a[2]>>) \/ ~Free(<<a[1], c[2]>>)

\* C6: the returned path starts at the raw path's first waypoint, the centre of
\* the start cell, and ends at the raw path's last waypoint, the centre of the
\* goal cell.
C6_EndpointsPreserved ==
    (fp.called /\ fp.path # NoPath)
        => /\ Len(Route) >= 1
           /\ fp.path[1] = Centre(Route[1])
           /\ fp.path[Len(fp.path)] = Centre(Route[Len(Route)])
           /\ Route[1] = StartCell
           /\ Route[Len(Route)] = GoalCell

\* A path that simplification shortened.
C6_Witness ==
    /\ fp.called
    /\ Len(fp.path) >= 2
    /\ Len(fp.path) < Len(Route)

\* A lower bound of the length of the returned polyline, in half world units: a
\* segment is at least as long as the larger of its two coordinate differences.
RECURSIVE LengthAtLeast(_, _)
LengthAtLeast(path, k) ==
    IF k >= Len(path) THEN 0
    ELSE Max2(Abs(path[k + 1].X - path[k].X), Abs(path[k + 1].Y - path[k].Y))
            + LengthAtLeast(path, k + 1)

\* C7: on the 10x10 grid with exactly the cells (4,0)..(4,8) blocked, FindPath
\* from cell (0,0) to cell (9,0) returns a path from the one centre to the other
\* whose route and waypoints lie on free cells only, that passes through the gap
\* (4,9) in row 9, and that is longer than the straight line between the
\* endpoints (9 cells, 18 half units).
C7_AroundTheWall ==
    (fp.called /\ {c \in Cells : ~Free(c)} = Wall)
        => /\ fp.path # NoPath
           /\ fp.path[1] = Centre(<<0, 0>>)
           /\ fp.path[Len(fp.path)] = Centre(<<9, 0>>)
           /\ \A k \in 1 .. Len(Route) : Free(Route[k])
           /\ \A k \in 1 .. Len(fp.path) : \E c \in Cells : Free(c) /\ Centre(c) = fp.path[k]
           /\ \E k \in 1 .. Len(Route) : Route[k] = <<4, 9>>
           /\ LengthAtLeast(fp.path, 1) > 18

C7_Witness ==
    /\ fp.called
    /\ {c \in Cells : ~Free(c)} = Wall
    /\ Len(fp.path) >= 3
    /\ \E k \in 1 .. Len(Route) : Route[k][2] = 9

\* C8: when start and goal map to the same free cell, FindPath returns exactly
\* one waypoint, the centre of that cell.
C8_SameCell ==
    (fp.called /\ StartCell = GoalCell /\ Free(StartCell))
        => fp.path = <<Centre(StartCell)>>

\* Two different positions of the same free cell.
C8_Witness ==
    /\ fp.called
    /\ fp.start # fp.goal
    /\ InExtent(fp.start) /\ InExtent(fp.goal)
    /\ StartCell = GoalCell /\ Free(StartCell)
    /\ Len(fp.path) = 1

\* C9: TakeDamage(amount), for an amount >= 0 and the armor of the unit's type,
\* lowers Health by exactly amount * (1 - armor) when that leaves Health above
\* 0 and otherwise sets Health to exactly 0; and Health is never negative,
\* whatever TakeDamage and Heal calls came before.  (Health in tenths, armor in
\* tenths: amount * (1 - armor) is amount * (10 - armor) tenths.)
C9_Damage(amount) ==
    LET armor == GetConfig(unit.Type).Armor
        left == unit.Health - amount * (10 - armor)
    IN  unit'.Health = IF left > 0 THEN left ELSE 0

C9_TakeDamageExact ==
    /\ [](unit.Health >= 0)
    /\ [][\A amount \in 0 .. MaxAmount : DoTakeDamage(amount) => C9_Damage(amount)]_vars

\* An armored unit has been hit until a last hit, at least as large as the
\* health it had left, set its Health to exactly 0.
C9_Witness ==
    /\ did = "TakeDamage"
    /\ unit.Type = TypeTank
    /\ unit.Health = 0
    /\ unit.State = StateDead

\* C10: for an Outpost whose capture started at progress 0 and that has had
\* infantry of a team other than its owner reported before every Update since,
\* an Update changes the owner exactly when the accumulated infantry-time
\* (k*dt summed over the Updates) has reached captureTime, never earlier and
\* never later, and the new owner is the capturing team.
C10_CaptureOnTime ==
    (tick.capturing) =>
        /\ tick.flipped <=> tick.held >= 8 * DefaultConfig.CaptureTime
        /\ tick.flipped => base.Owner = tick.by

\* C10, the half the program keeps: the owner never changes before the
\* accumulated infantry-time has reached captureTime.
C10_NotEarlier ==
    (tick.capturing /\ tick.flipped) =>
        tick.held >= 8 * DefaultConfig.CaptureTime


\* C11: TryPurchaseUnit is all-or-nothing.  It returns true only if a base
\* with that ID exists, is owned by the purchaser and the purchaser's credits
\* are at least the unit cost; then the purchaser's credits drop by exactly
\* the cost, the other player's credits stay, that base's spawn queue gets
\* exactly the unit type appended and every other base is unchanged.  In every
\* other case it returns false and the manager, credits and spawn queues
\* included, is unchanged.
C11_Purchase(baseID, unitType, owner) ==
    LET with == {i \in 1 .. Len(bm.Bases) : bm.Bases[i].ID = baseID}
        cost == 8 * GetConfig(unitType).Cost
        can == /\ with # {}
               /\ \A i \in with : bm.Bases[i].Owner = owner
               /\ owner # OwnerNeutral
               /\ GetCredits(bm, owner) >= cost
    IN  IF can
        THEN /\ bmRet'.out.ok
             /\ GetCredits(bm', owner) = GetCredits(bm, owner) - cost
             /\ \A o \in Owners \ {owner} : GetCredits(bm', o) = GetCredits(bm, o)
             /\ Len(bm'.Bases) = Len(bm.Bases)
             /\ \A i \in 1 .. Len(bm.Bases) :
                    bm'.Bases[i] =
                        IF i \in with
                        THEN [bm.Bases[i] EXCEPT !.SpawnQueue = @ \o <<unitType>>]
                        ELSE bm.Bases[i]
        ELSE /\ ~bmRet'.out.ok
             /\ bm' = bm

C11_AllOrNothing ==
    [][bmRet'.op = "TryPurchaseUnit"
           => C11_Purchase(bmRet'.out.baseID, bmRet'.out.unitType, bmRet'.out.owner)]_vars

\* A player who owns the base and can pay for infantry but not for the tank
\* asked for was refused.
C11_Witness ==
    /\ bmRet.op = "TryPurchaseUnit"
    /\ ~bmRet.out.ok
    /\ bmRet.out.unitType = TypeTank
    /\ bmRet.at # 0
    /\ bm.Bases[bmRet.at].Owner = bmRet.out.owner
    /\ GetCredits(bm, bmRet.out.owner) >= UnitCost(TypeInfantry)
    /\ GetCredits(bm, bmRet.out.owner) < UnitCost(TypeTank)
    /\ Len(bm.Bases[bmRet.at].SpawnQueue) = 1


\* C12: income is never double-counted.  CollectIncome returns the accumulated
\* income and resets it, so that a repeated call returns 0; and after every
\* Update of the base manager each base's AccumulatedIncome is 0 and each
\* player's credits have grown by exactly the sum of IncomeRate * dt over the
\* bases that player owned when the Update was called, Neutral bases accruing
\* nothing.
RECURSIVE SumOver(_, _)
SumOver(S, f) ==
    IF S = {} THEN 0
    ELSE LET x == CHOOSE y \in S : TRUE IN f[x] + SumOver(S \ {x}, f)

C12_Earned(owner, dt) ==
    LET owned == {i \in 1 .. Len(bm.Bases) : bm.Bases[i].Owner = owner}
    IN  SumOver(owned, [i \in owned |-> bm.Bases[i].IncomeRate * dt])

C12_TakeAndReset(b) ==
    LET once == BaseCollectIncome(b)
        twice == BaseCollectIncome(once.b)
    IN  /\ once.income = b.AccumulatedIncome
        /\ once.b.AccumulatedIncome = 0
        /\ twice.income = 0

C12_IncomeOnce ==
    [][bmRet'.op = "Update" =>
           LET dt == bmRet'.out
           IN  /\ \A i \in 1 .. Len(bm.Bases) :
                      /\ C12_TakeAndReset(BaseUpdate(bm.Bases[i], dt, bm.Config))
                      /\ bm'.Bases[i].AccumulatedIncome = 0
               /\ bm'.Player1 = bm.Player1 + C12_Earned(OwnerPlayer1, dt)
               /\ bm'.Player2 = bm.Player2 + C12_Earned(OwnerPlayer2, dt)]_vars


\* C13: a base's spawn queue is first in, first out and gated by the cooldown.
\* A TrySpawn call succeeds only when the queue is non-empty and the spawn
\* cooldown has elapsed; it then returns the head of the queue, removes that
\* one entry and sets the cooldown to the configured SpawnCooldown, and at
\* least SpawnCooldown seconds of Update time have passed since the previous
\* successful call on that base.  A failed call changes neither the queue nor
\* the cooldown.  No call touches another base.
C13_SpawnQueue ==
    [][bmRet'.op = "TrySpawn" =>
           LET i == bmRet'.at
               b == bm.Bases[i]
               r == bmRet'.out
           IN  /\ r.spawned <=> (Len(b.SpawnQueue) > 0 /\ b.SpawnCooldown <= 0)
               /\ r.spawned =>
                      /\ r.unitType = b.SpawnQueue[1]
                      /\ bm'.Bases[i].SpawnQueue = SubSeq(b.SpawnQueue, 2, Len(b.SpawnQueue))
                      /\ bm'.Bases[i].SpawnCooldown = 8 * bm.Config.SpawnCooldown
                      /\ r.waited >= 8 * bm.Config.SpawnCooldown
               /\ ~r.spawned => bm'.Bases[i] = b
               /\ \A j \in 1 .. Len(bm.Bases) : j # i => bm'.Bases[j] = bm.Bases[j]
               /\ Len(bm'.Bases) = Len(bm.Bases)]_vars

\* The second spawn of a base: the tank queued behind the infantry came out
\* once the cooldown of the first spawn had run.
C13_Witness ==
    /\ bmRet.op = "TrySpawn"
    /\ bmRet.out.spawned
    /\ bmRet.out.unitType = TypeTank
    /\ bmRet.out.waited = 8 * DefaultConfig.SpawnCooldown
    /\ bm.Bases[bmRet.at].SpawnQueue = <<>>
    /\ bm.Bases[bmRet.at].SpawnCooldown = 8 * DefaultConfig.SpawnCooldown


\* C14: an HQ never enters the capture machine.  Whatever infantry are reported
\* inside and however often it is updated, a base of type HQ keeps the Owner
\* it was created with, its CaptureProgress stays 0 and its CapturingOwner
\* stays Neutral.
C14_HQNeverCaptured ==
    /\ [](base.Type = TypeHQ =>
              base.CaptureProgress = 0 /\ base.CapturingOwner = OwnerNeutral)
    /\ [][base.Type = TypeHQ => base'.Type = TypeHQ /\ base'.Owner = base.Owner]_vars

\* An HQ held by the other player's infantry for the whole capture time.
C14_Witness ==
    /\ base.Type = TypeHQ
    /\ base.Owner = OwnerPlayer1
    /\ base.OccupyingInfantry = MaxInfantry
    /\ base.OccupyingOwner = OwnerPlayer2
    /\ tick.now >= 8 * DefaultConfig.CaptureTime


\* C15: IsGameOver is a function of the bases as they are when it is asked.  It
\* returns Neutral exactly when both players have an HQ with health above 0;
\* otherwise it returns a player without such an HQ, Player1 if Player1 has
\* none and else Player2.  It changes nothing in the manager.
C15_HasHQ(owner) ==
    \E i \in 1 .. Len(bm.Bases) :
        /\ bm.Bases[i].Type = TypeHQ
        /\ bm.Bases[i].Owner = owner
        /\ bm.Bases[i].Health > 0

C15_GameOver ==
    /\ [](bmRet.op = "IsGameOver" =>
              /\ bmRet.out = OwnerNeutral <=> (C15_HasHQ(OwnerPlayer1) /\ C15_HasHQ(OwnerPlayer2))
              /\ ~C15_HasHQ(OwnerPlayer1) => bmRet.out = OwnerPlayer1
              /\ (C15_HasHQ(OwnerPlayer1) /\ ~C15_HasHQ(OwnerPlayer2))
                     => bmRet.out = OwnerPlayer2)
    /\ [][bmRet'.op = "IsGameOver" => bm' = bm]_vars

\* Player2's HQ was destroyed, Player1's stands, and the game names Player2.
C15_Witness ==
    /\ bmRet.op = "IsGameOver"
    /\ bmRet.out = OwnerPlayer2
    /\ C15_HasHQ(OwnerPlayer1)
    /\ \E i \in 1 .. Len(bm.Bases) :
           /\ bm.Bases[i].Type = TypeHQ
           /\ bm.Bases[i].Owner = OwnerPlayer2
           /\ bm.Bases[i].Health = 0
    /\ bmRet.now > 0


\* C16: unit IDs are unique and never reused.  Over Spawn, SpawnWithObjective,
\* Update and Clear the next ID never decreases; a spawn that returns a unit
\* gives it the next ID, above every ID handed out before, and moves the next
\* ID past it; a spawn that returns no unit consumes no ID; the units of the
\* collection, and the units they still point to, all carry IDs handed out
\* already, each unit of the collection its own.
C16_Spawned == ret'.op \in {"Spawn", "SpawnWithObjective"}

C16_UniqueIDs ==
    /\ [](/\ \A id \in DOMAIN store : store[id].ID = id /\ id < nextID
          /\ \A i, j \in 1 .. Len(units) : units[i] = units[j] => i = j)
    /\ [][nextID' >= nextID]_vars
    /\ [][(C16_Spawned /\ ret'.u # Nil) =>
              /\ ret'.u = nextID
              /\ \A id \in DOMAIN store : id < ret'.u
              /\ nextID' = ret'.u + 1]_vars
    /\ [][(C16_Spawned /\ ret'.u = Nil) => nextID' = nextID]_vars

\* The last unit the bound allows was spawned into a collection that earlier
\* units had left, by death or by Clear, and got a fresh ID.
C16_Witness ==
    /\ ret.op \in {"Spawn", "SpawnWithObjective"}
    /\ ret.u = MaxID
    /\ units = <<MaxID>>


\* C17: unit death is immediate and irreversible.  The TakeDamage call that
\* brings Health to 0 leaves the unit in State Dead, and no operation on a
\* unit that is Dead (Update, TakeDamage, Heal, PickUp, Drop, SetOrder,
\* SetObjective) puts it in another State or makes IsDead false.
C17_DeathIsFinal ==
    /\ []((did = "TakeDamage" /\ unit.Health = 0) => unit.State = StateDead)
    /\ [][unit.State = StateDead => (unit'.State = StateDead /\ IsDead(unit'))]_vars

\* C18: Unit.Update on a unit whose State is Dead or BeingCarried changes no
\* field of the unit.
C18_FrozenUpdate ==
    [][(did' = "Update" /\ unit.State \in {StateDead, StateBeingCarried})
           => unit' = unit]_vars

\* A carried unit under an attack order for the far end of the stretch, which
\* an Update that acted would have moved, was updated where it was dropped
\* from.
C18_Witness ==
    /\ did = "Update"
    /\ unit.State = StateBeingCarried
    /\ unit.Order = OrderAttackNearest
    /\ 5 * Abs(unit.OrderTarget - unit.Position) >= Config(unit).AttackRange
    /\ unit.Health > 0


\* C19: a unit's Target is re-validated before every use.  Wherever a unit
\* applies damage through its Target in a frame, in the order execution of its
\* Unit.Update and in the manager's combat phase, the target is alive at that
\* moment and is a unit of the manager's collection.
C19_InCollection(id) == \E i \in 1 .. Len(units) : units[i] = id

\* The units as the unit at index i of the slice finds them in the update
\* phase and in the combat phase of the coming frame.
C19_AtUpdate(i) == updateUnits(store, SubSeq(units, 1, i - 1), 1, FrameDt)

C19_AtCombat(i) ==
    updateCombat(updateAI(updateUnits(store, units, 1, FrameDt), units, 1),
                 SubSeq(units, 1, i - 1), 1)

\* A unit has struck when its attack cooldown, which otherwise only runs
\* down, has been set anew.
C19_Struck(before, after, id) == after[id].AttackCooldown > before[id].AttackCooldown

C19_TargetValid(h, id) ==
    /\ h[id].Target # Nil
    /\ ~IsDead(h[h[id].Target])
    /\ C19_InCollection(h[id].Target)

C19_TargetRevalidated ==
    \A i \in 1 .. Len(units) :
        LET id == units[i]
            inUpdate == C19_AtUpdate(i)
            inCombat == C19_AtCombat(i)
        IN  /\ C19_Struck(inUpdate, Update(inUpdate, id, FrameDt), id)
                   => C19_TargetValid(inUpdate, id)
            /\ C19_Struck(inCombat, updateCombat(inCombat, <<id>>, 1), id)
                   => C19_TargetValid(inCombat, id)


\* C20: cleanup is immediate.  When Manager.Update returns, no unit of the
\* collection is dead, whichever phase of that call killed it, and the
\* collection is exactly the units that were alive at the end of the combat
\* phase, in the order they had before.
C20_Fought == C19_AtCombat(Len(units) + 1)

C21_DiedInUpdate(id) == ~IsDead(store[id]) /\ IsDead(C20_Fought[id])

C21_RetainedOneTick ==
    [][ret'.op = "Update" =>
           \A i \in 1 .. Len(units) :
               C21_DiedInUpdate(units[i]) =>
                   /\ \E j \in 1 .. Len(units') : units'[j] = units[i]
                   /\ store'[units[i]].State = StateDead]_vars


\* C22: PickUp leaves the unit with State BeingCarried, zero velocity, no
\* objective and no path; Drop(position, order) leaves it at position with
\* State Idle, Order = order and OrderTarget = Objective = position, and for
\* PatrolArea with PatrolCenter = position.
C22_PickedUp(u) ==
    /\ u.State = StateBeingCarried
    /\ u.Velocity = 0
    /\ ~u.HasObjective
    /\ u.Path = <<>>

C22_Dropped(u, position, order) ==
    /\ u.Position = position
    /\ u.State = StateIdle
    /\ u.Order = order
    /\ u.OrderTarget = position
    /\ u.Objective = position
    /\ order = OrderPatrolArea => u.PatrolCenter = position

C22_PickUpDrop ==
    [][/\ did' = "PickUp" => C22_PickedUp(unit')
       /\ did' = "Drop" =>
              \A position \in Stretch, order \in LifeOrders :
                  unit' = Drop(unit, position, order) =>
                      C22_Dropped(unit', position, order)]_vars

\* A unit picked up while it was moving along a path ...
C22_Witness ==
    /\ did = "PickUp"
    /\ unit.Position # 0
    /\ unit.Position # 2 * MaxStretch
    /\ C22_PickedUp(unit)

\* ... and a unit dropped at the far end with a patrol order.
C22_WitnessDrop ==
    /\ did = "Drop"
    /\ C22_Dropped(unit, 2 * MaxStretch, OrderPatrolArea)
    /\ unit.PatrolRadius > 0


\* C23: SpawnWithObjective never fails because of pathfinding.  At capacity
\* it returns no unit and leaves the manager as it was.  Otherwise the unit
\* exists with HasObjective true, Objective the requested point and
\* PathIndex 0; its path is the one FindPath returns when a Pathfinder is
\* attached and finds one, and empty otherwise.
C23_Found(u) ==
    FindPath(pf, [X |-> 0, Y |-> u.Position], [X |-> 0, Y |-> ObjectiveOf(u.Team)]).path

C23_Seeded(u) ==
    /\ u.HasObjective
    /\ u.Objective = ObjectiveOf(u.Team)
    /\ u.PathIndex = 0
    /\ u.Path = IF hasPathfinder /\ C23_Found(u) # NoPath THEN C23_Found(u) ELSE <<>>

C23_SpawnNeverFailsOnPath ==
    [][ret'.op = "SpawnWithObjective" =>
           IF Len(units) >= MaxUnits
           THEN ret'.u = Nil /\ manager' = manager
           ELSE /\ ret'.u = nextID
                /\ units' = Append(units, nextID)
                /\ C23_Seeded(store'[nextID])]_vars

\* A unit spawned on the blocked lane, Pathfinder attached: no path, and the
\* objective alone to go by.
C23_Witness ==
    /\ ret.op = "SpawnWithObjective"
    /\ ret.u # Nil
    /\ hasPathfinder
    /\ C23_Found(store[ret.u]) = NoPath
    /\ C23_Seeded(store[ret.u])
    /\ store[ret.u].Path = <<>>


\* C24: a unit's AttackCooldown is never negative: in every state reached
\* after Unit.Update, and so after every Manager.Update, which runs
\* Unit.Update on every unit, AttackCooldown >= 0.
C24_CooldownNeverNegative ==
    \A i \in 1 .. Len(units) : store[units[i]].AttackCooldown >= 0


\* C25: after the AI phase of every Manager.Update, the Target of each live
\* unit is nil or a live unit of the other team, not the unit itself, whose
\* attacker can attack ground units and which lies within twice the
\* attacker's range; a target chosen by a fresh scan has no attackable live
\* enemy strictly nearer; a unit that cannot attack ground units (SAM,
\* Supply) holds no Target.
C25_Updated == updateUnits(store, units, 1, FrameDt)

C25_Aimed == updateAI(C25_Updated, units, 1)

C25_Enemies(h, id) ==
    {e \in {units[j] : j \in 1 .. Len(units)} :
        /\ e # id
        /\ ~IsDead(h[e])
        /\ h[e].Team # h[id].Team
        /\ Config(h[id]).CanAttackGround}

C25_Kept(h, id) ==
    /\ h[id].Target # Nil
    /\ ~IsDead(h[h[id].Target])
    /\ 5 * Abs(h[h[id].Target].Position - h[id].Position) <= Config(h[id]).AttackRange

C25_Dist(h, id, e) == Abs(h[e].Position - h[id].Position)

C25_TargetOK(id) ==
    LET u == C25_Aimed[id]
    IN  /\ ~Config(u).CanAttackGround => u.Target = Nil
        /\ u.Target # Nil =>
               /\ u.Target \in C25_Enemies(C25_Aimed, id)
               /\ 5 * C25_Dist(C25_Aimed, id, u.Target) <= 2 * Config(u).AttackRange
               /\ ~C25_Kept(C25_Updated, id) =>
                      \A e \in C25_Enemies(C25_Aimed, id) :
                          C25_Dist(C25_Aimed, id, e) >= C25_Dist(C25_Aimed, id, u.Target)

C25_WitnessAggro ==
    \E i \in 1 .. Len(units) :
        LET id == units[i]
        IN  /\ ~IsDead(C25_Aimed[id])
            /\ C25_Aimed[id].Target = Nil
            /\ \E e \in C25_Enemies(C25_Aimed, id) :
                   5 * C25_Dist(C25_Aimed, id, e) > 2 * Config(C25_Aimed[id]).AttackRange


\* C26: attack rate limiting.  A unit applies damage at most once per frame,
\* whether by its attack order, in the manager's combat phase or to the mech
\* in the combat system, and between two applications of damage by the same
\* unit its Update calls have accumulated at least 1 / AttackRate.
\*
\* Whether the step from before to after applied damage on behalf of the unit
\* id: it reset the unit's cooldown, or changed another unit or the mech.
C26_Fired(before, after, id) ==
    \/ after.h[id].AttackCooldown > before.h[id].AttackCooldown
    \/ \E e \in DOMAIN before.h : e # id /\ after.h[e] # before.h[e]
    \/ after.mech.Health < before.mech.Health

\* The turns of the unit units[i] in one frame: its Unit.Update, its turn in
\* updateCombat, its turn in checkUnitMechCollisions; for each, whether it
\* applied damage.
C26_Turns(i) ==
    LET id == units[i]
        dt == FrameDt
        inUpdate == C19_AtUpdate(i)
        inCombat == C19_AtCombat(i)
        fought == C20_Fought
        alive == cleanup(fought, units)
        timed == updateMechRespawn(combat, playerMech, dt)
        open == ~MechIsDead(timed.mech) /\ timed.sys.invulnTimer <= 0
        enemies == GetEnemiesInRadius(fought, alive, timed.mech.Position, 100, TeamPlayer)
        mine == {k \in 1 .. Len(enemies) : enemies[k] = id}
        k == CHOOSE k \in mine : TRUE
        w == [sys |-> timed.sys, mech |-> timed.mech, h |-> fought]
        inSystem == checkUnitMechCollisions(w, SubSeq(enemies, 1, k - 1), 1)
        reached == open /\ mine # {} /\ ~MechIsDead(inSystem.mech)
        world(h) == [sys |-> combat, mech |-> playerMech, h |-> h]
    IN  <<C26_Fired(world(inUpdate), world(Update(inUpdate, id, dt)), id),
          C26_Fired(world(inCombat), world(updateCombat(inCombat, <<id>>, 1)), id),
          reached /\ C26_Fired(inSystem, checkUnitMechCollisions(inSystem, <<id>>, 1), id)>>

C26_Hits(i) == Cardinality({k \in 1 .. 3 : C26_Turns(i)[k]})

C27_Updated == tick'.now # tick.now

C27_CompletionAtomic ==
    [][C27_Updated /\ base.Type = TypeOutpost =>
           /\ ~captureComplete(base'.CaptureProgress)
           /\ base'.Owner # base.Owner =>
                  /\ base'.Owner = base.OccupyingOwner
                  /\ base'.CaptureProgress = 0
                  /\ base'.CapturingOwner = OwnerNeutral
                  /\ base'.OccupyingInfantry = 0]_vars

\* An Outpost just taken by Player2's infantry.
C27_Witness ==
    /\ base.Type = TypeOutpost
    /\ tick.capturing
    /\ tick.flipped
    /\ tick.by = OwnerPlayer2
    /\ base.Owner = OwnerPlayer2
    /\ base.OccupyingInfantry = 0
    /\ base.CaptureProgress = 0


\* C28: decay.  The Update of an Outpost with no occupying infantry and a
\* positive capture progress lowers the progress by dt / captureTime, to 0 if
\* that would go below, and whenever it leaves the progress at 0, exactly or
\* by clamping, it leaves CapturingOwner Neutral; so in every state with no
\* occupants, CaptureProgress = 0 implies CapturingOwner = Neutral.
C28_Decayed(dt) ==
    LET left == base.CaptureProgress - F32(Seconds32(dt), DefaultConfig.CaptureTime)
    IN  IF left < 0 THEN 0 ELSE F32(left, 1)

C28_DecayResets ==
    /\ [][C27_Updated /\ base.Type = TypeOutpost /\ base.OccupyingInfantry = 0
              /\ base.CaptureProgress > 0 =>
              /\ base'.CaptureProgress = C28_Decayed(tick'.now - tick.now)
              /\ base'.CaptureProgress = 0 => base'.CapturingOwner = OwnerNeutral]_vars
    /\ [](base.Type = TypeOutpost /\ base.OccupyingInfantry = 0
              /\ base.CaptureProgress = 0 =>
              base.CapturingOwner = OwnerNeutral)

\* C28, the part the program keeps: the amount of the decay, and the reset of
\* CapturingOwner when the progress is clamped.
C28_DecayClamps ==
    [][C27_Updated /\ base.Type = TypeOutpost /\ base.OccupyingInfantry = 0
           /\ base.CaptureProgress > 0 =>
           /\ base'.CaptureProgress = C28_Decayed(tick'.now - tick.now)
           /\ base.CaptureProgress < F32(Seconds32(tick'.now - tick.now),
                                         DefaultConfig.CaptureTime) =>
                  base'.CapturingOwner = OwnerNeutral]_vars


\* C29: capture progress is never inherited.  When the infantry occupying an
\* Outpost belong to a team that is neither its Owner nor its CapturingOwner,
\* the Update counts from 0: the progress it leaves is what their own
\* infantry-time of this frame gives, whatever progress the other team had
\* accumulated.  When they belong to the Owner, the Update leaves
\* CaptureProgress and CapturingOwner as they were.
C29_Accrued(n, dt) == F32(F32(n * Seconds32(dt), 1), DefaultConfig.CaptureTime)

C29_NeverInherited ==
    [][C27_Updated /\ base.Type = TypeOutpost /\ base.OccupyingInfantry >= 1 =>
           /\ base.OccupyingOwner = base.Owner =>
                  /\ base'.CaptureProgress = base.CaptureProgress
                  /\ base'.CapturingOwner = base.CapturingOwner
           /\ base.OccupyingOwner \notin {base.Owner, base.CapturingOwner} =>
                  /\ base'.CaptureProgress =
                         C29_Accrued(base.OccupyingInfantry, tick'.now - tick.now)
                  /\ base'.CapturingOwner = base.OccupyingOwner
                  /\ base'.Owner = base.Owner]_vars

\* Player2's infantry have just taken over an Outpost that Player1 was
\* capturing: the last Update found Player1's progress and left Player2's.
C29_Witness ==
    /\ tick.dt > 0
    /\ base = BaseUpdate(tick.was, tick.dt, DefaultConfig)
    /\ tick.was.CapturingOwner = OwnerPlayer1
    /\ tick.was.CaptureProgress > C29_Accrued(MaxInfantry, MaxDt)
    /\ tick.was.OccupyingOwner = OwnerPlayer2
    /\ tick.was.Owner = OwnerNeutral
    /\ base.CapturingOwner = OwnerPlayer2

\* The owner's infantry have just come back into an Outpost the other player
\* was capturing.
C29_WitnessFriendly ==
    /\ tick.dt > 0
    /\ base = BaseUpdate(tick.was, tick.dt, DefaultConfig)
    /\ tick.was.Owner = OwnerPlayer1
    /\ tick.was.OccupyingOwner = OwnerPlayer1
    /\ tick.was.OccupyingInfantry >= 1
    /\ tick.was.CapturingOwner = OwnerPlayer2
    /\ tick.was.CaptureProgress > 0


\* C30: a unit that is neither dead nor carried and whose State is Attacking or
\* Capturing when its Unit.Update is called does not have its State replaced
\* by Idle or Moving in that Update, whatever its Order, objective and
\* velocity.
C30_Held(h, id) ==
    h[id].State \in {StateAttacking, StateCapturing} =>
        Update(h, id, FrameDt)[id].State \notin {StateIdle, StateMoving}

C30_StateHeld ==
    [][ret'.op = "Update" =>
           \A i \in 1 .. Len(units) : C30_Held(C19_AtUpdate(i), units[i])]_vars

\* C30, the part the program keeps: a unit without an order keeps Attacking
\* and Capturing through its Update.
C30_StateHeldWithoutOrder ==
    [][ret'.op = "Update" =>
           \A i \in 1 .. Len(units) :
               C19_AtUpdate(i)[units[i]].Order = OrderNone =>
                   C30_Held(C19_AtUpdate(i), units[i])]_vars


\* C31: a live, non-carried unit of any type with order DefendPosition that is
\* updated repeatedly eventually comes within 2.0 world units of OrderTarget
\* and from then on holds there, with zero velocity and State Idle.
C31_Holding ==
    /\ 5 * Abs(unit.OrderTarget - unit.Position) <= 20
    /\ unit.Velocity = 0
    /\ unit.State = StateIdle

C31_DefendReaches == (unit.Order = OrderDefendPosition) ~> []C31_Holding

\* C31, the part the program keeps: a defending unit comes to rest, Idle and
\* with zero velocity, within 2.0 world units of OrderTarget or within less
\* than its attack range of it.
C31_Resting ==
    /\ 5 * Abs(unit.OrderTarget - unit.Position) <= Max2(20, Config(unit).AttackRange - 1)
    /\ unit.Velocity = 0
    /\ unit.State = StateIdle

C31_DefendRests == (unit.Order = OrderDefendPosition) ~> []C31_Resting


\* C32: whatever infantry are reported inside and however the base is updated,
\* the CaptureProgress of an Outpost seen between ticks lies in [0, 1].
C32_ProgressInRange ==
    base.Type = TypeOutpost =>
        base.CaptureProgress >= 0 /\ base.CaptureProgress <= One32

\* An Outpost one infantry-frame short of captured, and then abandoned.
C32_Witness ==
    /\ base.Type = TypeOutpost
    /\ captureComplete(base.CaptureProgress + C29_Accrued(1, 1))
    /\ base.OccupyingInfantry = 0


\* C33: a carried unit stays carried.  Over every Manager.Update between its
\* PickUp and the next Drop, whatever enemies are nearby, a unit whose State is
\* BeingCarried is still in the collection with State BeingCarried and
\* HasObjective false, and it has applied no damage in that Update.
C33_StaysCarried ==
    [][ret'.op = "Update" =>
           \A i \in 1 .. Len(units) :
               store[units[i]].State = StateBeingCarried =>
                   /\ C19_InCollection(units[i])'
                   /\ store'[units[i]].State = StateBeingCarried
                   /\ ~store'[units[i]].HasObjective
                   /\ ~C19_Struck(store, store', units[i])]_vars

\* C33, the part the program keeps: the carried unit's own Unit.Update leaves
\* it as it was, and it stays in the collection while it lives.
C33_FrozenInUpdate ==
    [][ret'.op = "Update" =>
           \A i \in 1 .. Len(units) :
               store[units[i]].State = StateBeingCarried =>
                   /\ Update(C19_AtUpdate(i), units[i], FrameDt) = C19_AtUpdate(i)
                   /\ ~IsDead(C20_Fought[units[i]]) => C19_InCollection(units[i])']_vars


\* C34: a unit applies damage to its Target only when the Target is within its
\* attack range at that moment, in the order execution of its Unit.Update and
\* in the manager's combat phase alike.
C34_InRangeAfter(before, after, id) ==
    C19_Struck(before, after, id) => IsInRange(after[id], after[after[id].Target])

C34_StrikesInRange ==
    [][ret'.op = "Update" =>
           \A i \in 1 .. Len(units) :
               /\ C34_InRangeAfter(C19_AtUpdate(i),
                                   Update(C19_AtUpdate(i), units[i], FrameDt), units[i])
               /\ C34_InRangeAfter(C19_AtCombat(i),
                                   updateCombat(C19_AtCombat(i), <<units[i]>>, 1),
                                   units[i])]_vars

\* C34, the part the program keeps: in the manager's combat phase a unit
\* strikes only a Target within its attack range.
C34_CombatStrikesInRange ==
    [][ret'.op = "Update" =>
           \A i \in 1 .. Len(units) :
               C34_InRangeAfter(C19_AtCombat(i),
                                updateCombat(C19_AtCombat(i), <<units[i]>>, 1),
                                units[i])]_vars


\* The bases that release a unit in the frame that starts in this state.
C35_Releasing ==
    SelectSeq([i \in 1 .. Len(bm.Bases) |-> i],
              LAMBDA i : TrySpawn(BaseManagerUpdate(bm, MaxDt).Bases[i], bm.Config).spawned)

\* The units a frame adds to the collection, oldest first.
C35_Recruits ==
    [k \in 1 .. (Len(units') - Len(ManagerUpdate(manager, FrameDt).units)) |->
        store'[units'[Len(ManagerUpdate(manager, FrameDt).units) + k]]]

\* C35: every queue entry a frame's TrySpawn releases becomes exactly one unit
\* of the queued type on the team of the player who paid for the entry.
C35_PurchasesArrive ==
    [][bmRet'.op = "Update" =>
           /\ Len(C35_Recruits) = Len(C35_Releasing)
           /\ \A k \in 1 .. Len(C35_Releasing) :
                  /\ C35_Recruits[k].Type = Head(bm.Bases[C35_Releasing[k]].SpawnQueue)
                  /\ C35_Recruits[k].Team = TeamOf(Head(bmRet.paid[C35_Releasing[k]]))]_vars

\* C35, as the code has it: a released entry becomes at most one unit, of the
\* queued type and on the team of the base's owner at the time of the release.
C35_ReleasesFollowOwner ==
    [][bmRet'.op = "Update" =>
           /\ Len(C35_Recruits) <= Len(C35_Releasing)
           /\ Len(ManagerUpdate(manager, FrameDt).units) + Len(C35_Releasing) <= MaxUnits
                  => Len(C35_Recruits) = Len(C35_Releasing)
           /\ \A k \in 1 .. Len(C35_Recruits) :
                  /\ C35_Recruits[k].Type = Head(bm.Bases[C35_Releasing[k]].SpawnQueue)
                  /\ C35_Recruits[k].Team = TeamOf(bm'.Bases[C35_Releasing[k]].Owner)]_vars


C36_NonNegative == bm.Player1 >= 0 /\ bm.Player2 >= 0

\* C36: from the initial 500 credits on, after any interleaving of frames,
\* SpendCredits and TryPurchaseUnit calls both players' credits are at least 0,
\* and a SpendCredits that fails leaves the credits as they were.
C36_NeverOverdrawn ==
    /\ []C36_NonNegative
    /\ [][(bmRet'.op = "SpendCredits" /\ ~bmRet'.out.ok) =>
              /\ bm'.Player1 = bm.Player1
              /\ bm'.Player2 = bm.Player2]_vars

\* A player who has bought a unit is refused an amount they no longer have.
C36_Witness ==
    /\ bmRet.op = "SpendCredits"
    /\ ~bmRet.out.ok
    /\ bmRet.out.owner = OwnerPlayer1
    /\ bmRet.bought > 0
    /\ bm.Player1 >= 0
    /\ bm.Player1 < bmRet.out.amount
    /\ bm.Player2 < 8 * 500


\* C37: when Manager.Update returns, every unit of the collection whose State
\* is Attacking has a Target.
C37_AttackersHaveTarget ==
    ret.op = "Update" =>
        \A i \in 1 .. Len(units) :
            store[units[i]].State = StateAttacking => store[units[i]].Target # Nil

\* C37, as the code has it: when Manager.Update returns, a unit that the
\* combat phase found with a dead Target is Idle and has none.
C37_DeadTargetDropped ==
    [][ret'.op = "Update" =>
           \A k \in 1 .. Len(units) :
               LET id == units[k]
                   h == C19_AtCombat(k)
               IN  (/\ h[id].State # StateDead
                    /\ h[id].Target # Nil
                    /\ h[h[id].Target].State = StateDead
                    /\ id \in DOMAIN store'
                    /\ store'[id].State # StateDead)
                   => store'[id].State = StateIdle /\ store'[id].Target = Nil]_vars


\* The unit is where its objective takes it: within 0.5 of the last waypoint
\* of its path, or without path within 0.1 of the objective.
C38_Arrived ==
    /\ unit.Order = OrderNone
    /\ unit.HasObjective
    /\ IF Len(unit.Path) > 0
       THEN /\ unit.PathIndex + 1 = Len(unit.Path)
            /\ Abs(unit.Path[Len(unit.Path)].Y - unit.Position) < 1
       ELSE 5 * Abs(unit.Objective - unit.Position) < 1

\* C38: a unit without order that has arrived and is updated repeatedly
\* eventually has HasObjective false.
C38_ArrivalClears == C38_Arrived ~> ~unit.HasObjective

\* C38, as the code has it: arrival at the last waypoint of a path clears the
\* objective, arrival without a path brings the unit to rest with the
\* objective still set.
C38_ArrivalRests ==
    C38_Arrived ~> \/ ~unit.HasObjective
                   \/ [](unit.HasObjective /\ unit.Path = <<>> /\ unit.Velocity = 0
                         /\ unit.Position = unit.Objective)


\* Where in the route a waypoint's cell is.
C39_At(w) == CHOOSE k \in 1 .. Len(Route) : Centre(Route[k]) = w

\* The cells of the route from the i-th to the j-th lie on one straight run.
C39_StraightRun(i, j) ==
    /\ i < j
    /\ \A k \in i .. (j - 1) :
           /\ Route[k + 1][1] - Route[k][1] = Route[i + 1][1] - Route[i][1]
           /\ Route[k + 1][2] - Route[k][2] = Route[i + 1][2] - Route[i][2]

\* C39: every waypoint of a returned path is the centre of a free cell of the
\* grid, and consecutive waypoints are the two ends of a horizontal, vertical or
\* diagonal run of consecutive cells of the route before simplification.
C39_SimplifiedAlongRoute ==
    (fp.called /\ fp.path # NoPath)
        => /\ \A n \in 1 .. Len(fp.path) :
                  \E c \in Cells : /\ Free(c)
                                   /\ Centre(c) = fp.path[n]
                                   /\ \E k \in 1 .. Len(Route) : Route[k] = c
           /\ \A n \in 1 .. (Len(fp.path) - 1) :
                  C39_StraightRun(C39_At(fp.path[n]), C39_At(fp.path[n + 1]))

\* A path that kept a corner and dropped an interior point of a run.
C39_Witness ==
    /\ fp.called
    /\ NumBlocked(blocked) >= 1
    /\ Len(fp.path) >= 3
    /\ Len(fp.path) < Len(Route)


\* C40: while the mech is dead a frame of the combat system leaves the mech
\* and the units as they are, until the first frame at which the dt since its
\* death reaches MechRespawnDelay, which leaves it alive with full health at
\* the respawn position; from then on, until MechSpawnInvuln of dt has passed,
\* no frame lowers its health.
C40_RespawnProtocol ==
    [][ret'.op = "Update" =>
           /\ (MechIsDead(playerMech) /\ tick.died + tick'.dt < combat.Config.MechRespawnDelay)
                 => /\ playerMech' = playerMech
                    /\ store' = ManagerUpdate(manager, tick'.dt).store
           /\ (MechIsDead(playerMech) /\ tick.died + tick'.dt >= combat.Config.MechRespawnDelay)
                 => /\ ~MechIsDead(playerMech')
                    /\ playerMech'.Health = playerMech'.MaxHealth
                    /\ playerMech'.Position = combat.respawnPosition.Z
                    /\ playerMech'.Height = combat.respawnPosition.Y
                    /\ store' = ManagerUpdate(manager, tick'.dt).store
           /\ (~MechIsDead(playerMech) /\ tick.risen
                   /\ tick.rose + tick'.dt < combat.Config.MechSpawnInvuln)
                 => playerMech'.Health = playerMech.Health]_vars

\* The mech was killed, has respawned, and has been hit again since.
C40_Witness ==
    /\ tick.risen
    /\ tick.rose = combat.Config.MechSpawnInvuln
    /\ playerMech.Health < playerMech.MaxHealth
    /\ ~MechIsDead(playerMech)

=============================================================================
